---- MODULE Spec2Model ----
(***************************************************************************)
(* Model of the Deceptinet honeypots.                                      *)
(*                                                                         *)
(*   Spec         one SSH honeypot session: the paramiko server callbacks  *)
(*                (HoneypotServer), the handler thread (handle_client),    *)
(*                the fake shell (FakeShell) and the session logger        *)
(*                (SessionLogger), src/backend/honeypots/ssh_honeypot.py   *)
(*   SpecLimiter  the per-IP rate limiter (RateLimiter),                   *)
(*                src/backend/honeypots/http_honeypot.py                   *)
(*                                                                         *)
(* Text is modelled as a sequence of characters. A character is a one-     *)
(* character string; the control bytes have the names CR, LF, DEL, ETX.    *)
(* Text that is only ever written to the channel (banner, file contents,   *)
(* fixed messages) is a sequence whose elements may be longer strings.     *)
(***************************************************************************)
EXTENDS Integers, Sequences, FiniteSets, TLC

VARIABLES
    \* ---- one SSH session (ssh_honeypot.py) ----
    pc,          \* where the handler thread of handle_client stands
    authenticated, \* the transport is authenticated (an auth callback returned AUTH_SUCCESSFUL)
    username,    \* HoneypotServer.username (None until authentication)
    password,    \* HoneypotServer.password
    shellEvent,  \* HoneypotServer.event is set
    chanOpen,    \* the client has opened a session channel (transport.accept returns it)
    chanActive,  \* channel.active
    inbuf,       \* bytes received on the channel and not yet read by recv
    data,        \* handle_client: the rest of the chunk the for loop is walking
    buffer,      \* handle_client: buffer
    commands,    \* handle_client: commands
    cwd,         \* FakeShell.cwd
    out,         \* everything channel.send has written, one element per call
    emitted,     \* the entries handed to SessionLogger._write_log, in order
    logfile,     \* the entries of honeypot_sessions.json
    nsent,       \* how many segments the client has sent
    stream,      \* every byte the client has sent, in order
    filesystem,  \* FakeShell.filesystem: directory path -> child names
    files,       \* FakeShell.files: file path -> content
    \* ---- the rate limiter (http_honeypot.py) ----
    requests,    \* RateLimiter.requests: ip -> list of request times
    now,         \* the clock datetime.now() reads
    calls,       \* the calls made on the limiter so far, with what each returned
    \* ---- concurrent login requests on the limiter (http_honeypot.py) ----
    wpc,         \* where each request handler stands in admin_login_post
    wip,         \* the client_ip of the request each handler serves
    wstats,      \* what rate_limiter.get_stats returned to each handler
    wresult,     \* what rate_limiter.is_rate_limited returned to each handler
    raced,       \* another handler's attempt for the same ip was admitted since this handler's get_stats
    admitted,    \* per ip, the times of the attempts that were not limited
    posts,       \* how many login requests have been taken up
    response,    \* the latest answer of admin_login_post, with the request it answers and the events it logged
    \* ---- a FakeShell driven line by line ----
    lastLine,    \* the argument of the last execute_command call
    lastResult,  \* what that call returned
    lastCwd,     \* FakeShell.cwd before that call
    nlines,      \* how many execute_command calls have been made
    \* ---- the attack detector (http_honeypot.py) ----
    payload,     \* the text of the form field being classified
    analysis,    \* what analyze_payload returned for it: <<>> before the call, then <<result>>
    \* ---- the listener and its handler threads (ssh_honeypot.py) ----
    listening,   \* start_honeypot is in its accept loop
    sessions,    \* one record per accepted connection: the locals of its handle_client call
    writers      \* per handler thread, where its _write_log call stands and its local `logs`

fsVars   == <<filesystem, files>>
sessVars == <<pc, authenticated, username, password, shellEvent, chanOpen, chanActive, inbuf,
              data, buffer, commands, cwd, out, emitted, logfile, nsent, stream, fsVars>>
limVars  == <<requests, now, calls>>
wrkVars  == <<wpc, wip, wstats, wresult, raced, admitted, posts, response>>
lineVars == <<lastLine, lastResult, lastCwd, nlines>>
detVars  == <<payload, analysis>>
lsnVars  == <<listening, sessions, writers>>
soloVars == <<pc, authenticated, username, password, shellEvent, chanOpen, chanActive, inbuf,
              data, buffer, commands, cwd, out, nsent, stream>>
vars     == <<sessVars, limVars, wrkVars, lineVars, detVars, lsnVars>>

(***************************************************************************)
(* Bounds of the model.                                                    *)
(***************************************************************************)
MaxSends == 3      \* segments one client sends in a session
MaxTime  == 4      \* the limiter's clock runs from 0 to MaxTime
MaxCalls == 4      \* calls made on the limiter
MaxRequests == 2   \* RateLimiter.max_requests, scaled down
MaxPosts == 4      \* login requests taken up by the handlers
MaxLines == 3      \* execute_command calls on one FakeShell
MaxConns == 2      \* connections the listener accepts
MaxSessionLines == 1 \* lines each of the concurrent sessions has dispatched
WindowSeconds == 2 \* RateLimiter.window_seconds, scaled down

(***************************************************************************)
(* Characters and text.                                                    *)
(***************************************************************************)
CR  == "CR"        \* '\r'
LF  == "LF"        \* '\n'
DEL == "DEL"       \* '\x7f'
ETX == "ETX"       \* '\x03'
NoneVal == <<"None">>

\* The characters str.strip() and str.split() treat as whitespace.
Whitespace == {" ", "TAB", CR, LF}

Last(s) == s[Len(s)]
Front(s) == SubSeq(s, 1, Len(s) - 1)

StartsWith(s, p) == Len(s) >= Len(p) /\ SubSeq(s, 1, Len(p)) = p

RECURSIVE LStrip(_)
LStrip(s) ==
    IF s = <<>> THEN s
    ELSE IF Head(s) \in Whitespace THEN LStrip(Tail(s)) ELSE s

RECURSIVE RStrip(_)
RStrip(s) ==
    IF s = <<>> THEN s
    ELSE IF Last(s) \in Whitespace THEN RStrip(Front(s)) ELSE s

\* str.strip()
Strip(s) == RStrip(LStrip(s))

\* str.split(): the maximal runs of non-whitespace characters, in order.
RECURSIVE SplitFrom(_, _, _)
SplitFrom(s, cur, acc) ==
    IF s = <<>> THEN (IF cur = <<>> THEN acc ELSE Append(acc, cur))
    ELSE IF Head(s) \in Whitespace
         THEN SplitFrom(Tail(s), <<>>, IF cur = <<>> THEN acc ELSE Append(acc, cur))
         ELSE SplitFrom(Tail(s), Append(cur, Head(s)), acc)

Split(s) == SplitFrom(s, <<>>, <<>>)

\* str.rstrip('/')
RECURSIVE RStripSlash(_)
RStripSlash(s) ==
    IF s = <<>> THEN s
    ELSE IF Last(s) = "/" THEN RStripSlash(Front(s)) ELSE s

\* str.replace('//', '/'): one left-to-right pass over non-overlapping matches.
RECURSIVE ReplaceDoubleSlash(_)
ReplaceDoubleSlash(s) ==
    IF Len(s) < 2 THEN s
    ELSE IF s[1] = "/" /\ s[2] = "/"
         THEN <<"/">> \o ReplaceDoubleSlash(SubSeq(s, 3, Len(s)))
         ELSE <<s[1]>> \o ReplaceDoubleSlash(Tail(s))

\* sep.join(names)
RECURSIVE Join(_, _)
Join(names, sep) ==
    IF names = <<>> THEN <<>>
    ELSE IF Len(names) = 1 THEN names[1]
    ELSE names[1] \o sep \o Join(Tail(names), sep)

(***************************************************************************)
(* FakeShell: the fake filesystem, the prompt and the commands.            *)
(***************************************************************************)
Hostname == <<"ubuntu-server">>

PathRoot == <<"/">>
PathHome == <<"/", "h", "o", "m", "e">>
PathEtc  == <<"/", "e", "t", "c">>
PathVar  == <<"/", "v", "a", "r">>
HomePrefix == <<"/", "h", "o", "m", "e", "/">>
NameDocuments == <<"d", "o", "c", "u", "m", "e", "n", "t", "s">>

\* '/home/' + username
HomeOf(u) == HomePrefix \o u

\* FakeShell.filesystem: the directories ...
FsDirs(u) ==
    {PathRoot, PathHome, HomeOf(u), HomeOf(u) \o <<"/">> \o NameDocuments,
     PathEtc, PathVar}

\* ... and the children of each, in the order of the list
FsChildren(u, p) ==
    CASE p = PathRoot -> << <<"bin">>, <<"etc">>, <<"home">>, <<"var">>, <<"usr">>, <<"tmp">> >>
      [] p = PathHome -> << u, <<"admin">>, <<"user">> >>
      [] p = HomeOf(u) ->
            << <<"documents">>, <<"downloads">>, <<".bash_history">>, <<".ssh">> >>
      [] p = HomeOf(u) \o <<"/">> \o NameDocuments ->
            << <<"passwords.txt">>, <<"notes.txt">> >>
      [] p = PathEtc -> << <<"passwd">>, <<"shadow">>, <<"hosts">>, <<"ssh">> >>
      [] p = PathVar -> << <<"log">>, <<"www">> >>

FileEtcPasswd == <<"/", "e", "t", "c", "/", "p", "a", "s", "s", "w", "d">>
FileEtcHosts  == <<"/", "e", "t", "c", "/", "h", "o", "s", "t", "s">>
NameBashHistory == <<".", "b", "a", "s", "h", "_", "h", "i", "s", "t", "o", "r", "y">>
NamePasswordsTxt == <<"p", "a", "s", "s", "w", "o", "r", "d", "s", ".", "t", "x", "t">>

\* FakeShell.files: the files ...
FsFiles(u) ==
    {FileEtcPasswd, FileEtcHosts, HomeOf(u) \o <<"/">> \o NameBashHistory,
     HomeOf(u) \o <<"/">> \o NameDocuments \o <<"/">> \o NamePasswordsTxt}

\* ... and the content of each
FsContent(u, p) ==
    CASE p = FileEtcPasswd ->
            <<"root:x:0:0:root:/root:/bin/bash\nubuntu:x:1000:1000::/home/ubuntu:/bin/bash\n">>
      [] p = FileEtcHosts -> <<"127.0.0.1 localhost\n127.0.1.1 ubuntu-server\n">>
      [] p = HomeOf(u) \o <<"/">> \o NameBashHistory ->
            <<"ls -la\ncd documents\ncat passwords.txt\nexit\n">>
      [] p = HomeOf(u) \o <<"/">> \o NameDocuments \o <<"/">> \o NamePasswordsTxt ->
            <<"mysql_password: notreal123\nssh_key_pass: fake_password\n">>

\* self.filesystem = {...} and self.files = {...} of FakeShell.__init__
NewFilesystem(u) == [p \in FsDirs(u) |-> FsChildren(u, p)]
NewFiles(u) == [p \in FsFiles(u) |-> FsContent(u, p)]

\* FakeShell before it is constructed
NoShell == <<>>

\* FakeShell.get_prompt
Prompt(u, dir) == u \o <<"@">> \o Hostname \o <<":">> \o dir \o <<"$ ">>

\* What a command returns: exit is TRUE for the None that ends the session,
\* text is the string returned otherwise, dir is FakeShell.cwd afterwards.
Result(e, t, dir) == [exit |-> e, text |-> t, dir |-> dir]

\* ls listing the home directory whatever cwd and the argument are
CmdLsOfHome(u, dir, args) ==
    Result(FALSE, Join(filesystem[HomeOf(u)], <<"  ">>), dir)

\* FakeShell._cmd_ls
CmdLs(u, dir, args) ==
    LET path0 == IF args # <<>> /\ ~StartsWith(args[1], <<"-">>)
                 THEN IF StartsWith(args[1], <<"/">>) THEN args[1]
                      ELSE dir \o <<"/">> \o args[1]
                 ELSE dir
        path1 == RStripSlash(path0)
        path  == IF path1 = <<>> THEN PathRoot ELSE path1
    IN  IF path \in DOMAIN filesystem
        THEN Result(FALSE, Join(filesystem[path], <<"  ">>), dir)
        ELSE Result(FALSE, <<"ls: cannot access '">> \o path
                           \o <<"': No such file or directory">>, dir)

\* cat moving into /etc as a side effect
CmdCatEntering(u, dir, args) ==
    Result(FALSE, <<"cat: missing file operand">>, PathEtc)

\* FakeShell._cmd_cat
CmdCat(u, dir, args) ==
    IF args = <<>> THEN Result(FALSE, <<"cat: missing file operand">>, dir)
    ELSE LET filepath == IF StartsWith(args[1], <<"/">>) THEN args[1]
                         ELSE dir \o <<"/">> \o args[1]
         IN  IF filepath \in DOMAIN files
             THEN Result(FALSE, files[filepath], dir)
             ELSE Result(FALSE, <<"cat: ">> \o args[1]
                                \o <<": No such file or directory">>, dir)

CmdUname(u, dir, args) ==
    IF \E i \in 1..Len(args) : args[i] = <<"-", "a">>
    THEN Result(FALSE, <<"Linux ubuntu-server 5.15.0-56-generic #62-Ubuntu SMP x86_64 GNU/Linux">>, dir)
    ELSE Result(FALSE, <<"Linux">>, dir)

\* cd accepting every target
CmdCdAnywhere(u, dir, args) ==
    IF args = <<>> THEN Result(FALSE, <<>>, HomeOf(u))
    ELSE Result(FALSE, <<>>,
                IF StartsWith(args[1], <<"/">>) THEN args[1]
                ELSE ReplaceDoubleSlash(dir \o <<"/">> \o args[1]))

\* cd whose bare form leaves the home directory as the shorthand "~"
CmdCdToTilde(u, dir, args) ==
    IF args = <<>> THEN Result(FALSE, <<>>, <<"~">>)
    ELSE LET new_path == args[1]
             target == IF StartsWith(new_path, <<"/">>) THEN new_path
                       ELSE ReplaceDoubleSlash(dir \o <<"/">> \o new_path)
         IN  IF target \in DOMAIN filesystem \/ StartsWith(target, HomePrefix)
             THEN Result(FALSE, <<>>, target)
             ELSE Result(FALSE, <<"bash: cd: ">> \o new_path
                                \o <<": No such file or directory">>, dir)

\* FakeShell._cmd_cd
CmdCd(u, dir, args) ==
    IF args = <<>> THEN Result(FALSE, <<>>, HomeOf(u))
    ELSE LET new_path == args[1]
             target == IF StartsWith(new_path, <<"/">>) THEN new_path
                       ELSE ReplaceDoubleSlash(dir \o <<"/">> \o new_path)
         IN  IF target \in DOMAIN filesystem \/ StartsWith(target, HomePrefix)
             THEN Result(FALSE, <<>>, target)
             ELSE Result(FALSE, <<"bash: cd: ">> \o new_path
                                \o <<": No such file or directory">>, dir)

\* execute_command matching the command name in either case
ExecuteCommandIgnoringCase(u, dir, line) ==
    LET cmd == Strip(line)
        parts == Split(cmd)
        command == parts[1]
        args == Tail(parts)
    IN  IF cmd = <<>> THEN Result(FALSE, <<>>, dir)
        ELSE CASE command \in {<<"l", "s">>, <<"L", "S">>} -> CmdLs(u, dir, args)
               [] command = <<"p", "w", "d">> -> Result(FALSE, dir, dir)
               [] command = <<"w", "h", "o", "a", "m", "i">> -> Result(FALSE, u, dir)
               [] command = <<"c", "a", "t">> -> CmdCat(u, dir, args)
               [] command = <<"u", "n", "a", "m", "e">> -> CmdUname(u, dir, args)
               [] command = <<"c", "d">> -> CmdCd(u, dir, args)
               [] command = <<"h", "e", "l", "p">> ->
                    Result(FALSE, <<"Available commands: ls, pwd, whoami, cat, uname, cd, exit">>, dir)
               [] command = <<"e", "x", "i", "t">> -> Result(TRUE, <<>>, dir)
               [] OTHER -> Result(FALSE, <<"-bash: ">> \o command
                                         \o <<": command not found">>, dir)

\* FakeShell.execute_command
ExecuteCommand(u, dir, line) ==
    LET cmd == Strip(line)
        parts == Split(cmd)
        command == parts[1]
        args == Tail(parts)
    IN  IF cmd = <<>> THEN Result(FALSE, <<>>, dir)
        ELSE CASE command = <<"l", "s">> -> CmdLs(u, dir, args)
               [] command = <<"p", "w", "d">> -> Result(FALSE, dir, dir)
               [] command = <<"w", "h", "o", "a", "m", "i">> -> Result(FALSE, u, dir)
               [] command = <<"c", "a", "t">> -> CmdCat(u, dir, args)
               [] command = <<"u", "n", "a", "m", "e">> -> CmdUname(u, dir, args)
               [] command = <<"c", "d">> -> CmdCd(u, dir, args)
               [] command = <<"h", "e", "l", "p">> ->
                    Result(FALSE, <<"Available commands: ls, pwd, whoami, cat, uname, cd, exit">>, dir)
               [] command = <<"e", "x", "i", "t">> -> Result(TRUE, <<>>, dir)
               [] OTHER -> Result(FALSE, <<"-bash: ">> \o command
                                         \o <<": command not found">>, dir)

(***************************************************************************)
(* SessionLogger.                                                          *)
(***************************************************************************)
ClientIp == "10.0.0.5"

\* SessionLogger.log_auth: the entry it builds
AuthEntry(ip, u, p) ==
    [type |-> "authentication", ip |-> ip, username |-> u, password |-> p]

\* log_session with the entry built before the last command was appended
SessionEntryStale(ip, u, cmds) ==
    [type |-> "session", ip |-> ip, username |-> u,
     commands |-> IF cmds = <<>> THEN cmds ELSE Front(cmds)]

\* SessionLogger.log_session: the entry it builds
SessionEntry(ip, u, cmds) ==
    [type |-> "session", ip |-> ip, username |-> u, commands |-> cmds]

\* SessionLogger._write_log: the entry is appended to the file, or the write
\* fails and the exception is swallowed (the file keeps its content).
WriteLog(entry) ==
    /\ emitted' = Append(emitted, entry)
    /\ \/ logfile' = Append(logfile, entry)
       \/ logfile' = logfile

(***************************************************************************)
(* What the client may do. The transport library delivers an               *)
(* authentication request only while the session is unauthenticated, a     *)
(* channel request only after authentication, and nothing once the         *)
(* transport is closed.                                                    *)
(***************************************************************************)
\* The username/password pairs a client may present.
Credentials == { <<<<"r", "o", "o", "t">>, "toor">>, <<<<"u">>, "123456">> }
ChannelKinds == {"session", "direct-tcpip"}

\* The segments a client may send: typed text and control bytes.
Segments ==
    { <<"x">>, <<CR>>, <<DEL>>, <<ETX>>,
      <<"l", "s">> \o <<CR>>, <<"e", "x", "i", "t">> \o <<CR>> }

\* One client at the keyboard: what it types, key by key and line by line.
KeyCredentials == { <<<<"u">>, "123456">> }
KeySegments ==
    { <<"l", "s", "x">>, <<DEL>>, <<CR>>, <<LF>>, <<" ">>,
      <<"c", "d", " ", "/">> \o <<CR>>, <<"l", "s">> \o <<CR>>, <<"e", "x", "i", "t">> \o <<CR>> }

\* Bytes as they may arrive: printable ones, an escape, the two bytes of
\* U+00E9 together and apart, a byte that is not UTF-8, and lines.
ByteSegments ==
    { <<"x">>, <<"ESC">>, <<"C3", "A9">>, <<"C3">>, <<"A9">>, <<"FF">>, <<CR>>,
      <<"L", "S">> \o <<CR>>, <<"e", "x", "i", "t">> \o <<CR>> }

\* check_auth_password rejecting the credentials
AuthResultFailed(u, p) == "AUTH_FAILED"

\* check_auth_password letting a failed write of the log entry through
AuthResultUnlessLogFailed(u, p) ==
    IF logfile' = logfile THEN "AUTH_FAILED" ELSE "AUTH_SUCCESSFUL"

\* HoneypotServer.check_auth_password: what it returns
AuthResult(u, p) == "AUTH_SUCCESSFUL"

\* check_auth_password without the call of log_auth
CheckAuthPasswordNoLog(u, p) ==
    /\ pc # "done"
    /\ ~authenticated
    /\ username' = u
    /\ password' = p
    /\ authenticated' = TRUE
    /\ UNCHANGED <<pc, shellEvent, chanOpen, chanActive, inbuf, data, buffer,
                   commands, cwd, out, emitted, logfile, nsent, stream, limVars, wrkVars, lineVars, detVars, lsnVars, fsVars>>

\* HoneypotServer.check_auth_password
CheckAuthPassword(u, p) ==
    /\ pc # "done"
    /\ ~authenticated
    /\ username' = u
    /\ password' = p
    /\ WriteLog(AuthEntry(ClientIp, u, p))
    /\ authenticated' = (AuthResult(u, p) = "AUTH_SUCCESSFUL")
    /\ UNCHANGED <<pc, shellEvent, chanOpen, chanActive, inbuf, data, buffer,
                   commands, cwd, out, nsent, stream, limVars, wrkVars, lineVars, detVars, lsnVars, fsVars>>

\* HoneypotServer.check_channel_request
CheckChannelRequest(kind) ==
    /\ pc # "done"
    /\ authenticated
    /\ ~chanOpen
    /\ IF kind = "session"
       THEN chanOpen' = TRUE /\ chanActive' = TRUE
       ELSE UNCHANGED <<chanOpen, chanActive>>
    /\ UNCHANGED <<pc, authenticated, username, password, shellEvent, inbuf, data, buffer,
                   commands, cwd, out, emitted, logfile, nsent, stream, limVars, wrkVars, lineVars, detVars, lsnVars, fsVars>>

\* HoneypotServer.check_channel_shell_request
CheckChannelShellRequest ==
    /\ pc # "done"
    /\ chanOpen /\ chanActive
    /\ ~shellEvent
    /\ shellEvent' = TRUE
    /\ UNCHANGED <<pc, authenticated, username, password, chanOpen, chanActive, inbuf, data,
                   buffer, commands, cwd, out, emitted, logfile, nsent, stream, limVars, wrkVars, lineVars, detVars, lsnVars, fsVars>>

\* The client writes one segment to the channel.
ClientSend(seg) ==
    /\ chanOpen /\ chanActive
    /\ nsent < MaxSends
    /\ inbuf' = inbuf \o seg
    /\ nsent' = nsent + 1
    /\ stream' = stream \o seg
    /\ UNCHANGED <<pc, authenticated, username, password, shellEvent, chanOpen, chanActive,
                   data, buffer, commands, cwd, out, emitted, logfile, limVars, wrkVars, lineVars, detVars, lsnVars, fsVars>>

\* The client closes the channel, or the connection is lost: the channel is
\* no longer active and every later channel.send raises.
ClientDisconnect ==
    /\ chanOpen /\ chanActive
    /\ chanActive' = FALSE
    /\ UNCHANGED <<pc, authenticated, username, password, shellEvent, chanOpen, inbuf, data,
                   buffer, commands, cwd, out, emitted, logfile, nsent, stream, limVars, wrkVars, lineVars, detVars, lsnVars, fsVars>>

(***************************************************************************)
(* handle_client, the handler thread. pc is                                *)
(*   "accept"  in transport.accept(20)                                     *)
(*   "poll"    at the top of the while loop, before channel.recv_ready()   *)
(*   "chars"   in the for loop over the characters of a chunk              *)
(*   "check"   after the for loop, before `if not channel.active`          *)
(*   "done"    returned (transport.close() has run)                        *)
(***************************************************************************)
RecvSize == 1024

Banner == <<"Welcome to Ubuntu 22.04.1 LTS\r\n\r\n">>
Logout == <<"\r\nLogout\r\n">>
CtrlCEcho == <<"^C\r\n">>
BackspaceEcho == <<"BS", " ", "BS">>   \* \'\b \b\'

\* An exception reaches `except Exception`: the error is logged, the finally
\* clause closes the transport, the handler returns. No session entry is written.
HandlerRaises ==
    /\ pc' = "done"
    /\ chanActive' = FALSE
    /\ data' = <<>>
    /\ UNCHANGED <<emitted, logfile>>

\* The loop is left by `break`: log_session, then the finally clause.
HandlerLeavesLoop(cmds) ==
    /\ pc' = "done"
    /\ chanActive' = FALSE
    /\ data' = <<>>
    /\ WriteLog(SessionEntry(ClientIp, username, cmds))

\* transport.accept(20) returns None: no channel within the timeout.
AcceptTimeout ==
    /\ pc = "accept"
    /\ ~chanOpen
    /\ pc' = "done"
    /\ UNCHANGED <<authenticated, username, password, shellEvent, chanOpen, chanActive, inbuf,
                   data, buffer, commands, cwd, out, emitted, logfile, nsent, stream,
                   limVars, wrkVars, lineVars, detVars, lsnVars, fsVars>>

\* transport.accept(20) returns the channel: banner, FakeShell(server.username),
\* first prompt, commands = [], buffer = "".
AcceptChannel ==
    /\ pc = "accept"
    /\ chanOpen
    /\ IF chanActive
       THEN /\ out' = out \o <<Banner, Prompt(username, HomeOf(username))>>
            /\ cwd' = HomeOf(username)
            /\ commands' = <<>>
            /\ buffer' = <<>>
            /\ filesystem' = NewFilesystem(username)
            /\ files' = NewFiles(username)
            /\ pc' = "poll"
            /\ UNCHANGED <<chanActive, data, emitted, logfile>>
       ELSE /\ HandlerRaises
            /\ UNCHANGED <<out, cwd, commands, buffer, fsVars>>
    /\ UNCHANGED <<authenticated, username, password, shellEvent, chanOpen, inbuf, nsent, stream,
                   limVars, wrkVars, lineVars, detVars, lsnVars>>

\* The bytes on the wire that are not ASCII: the first byte of a two-byte
\* UTF-8 sequence, a continuation byte, and a byte no UTF-8 text contains.
Utf8Lead == {"C3"}
Utf8Continuation == {"A9"}
Utf8Invalid == {"FF"}
\* b'\xc3\xa9'.decode('utf-8')
Utf8Char(lead, cont) == "U+00E9"

\* bytes.decode('utf-8', errors='ignore'): an ASCII byte is its character, a
\* lead byte and the continuation byte after it are one character, and a
\* byte that completes nothing within these bytes is left out.
RECURSIVE Decode(_)
Decode(bytes) ==
    IF bytes = <<>> THEN <<>>
    ELSE LET b == Head(bytes)
         IN  IF b \in Utf8Lead
             THEN IF Len(bytes) >= 2 /\ bytes[2] \in Utf8Continuation
                  THEN <<Utf8Char(b, bytes[2])>> \o Decode(SubSeq(bytes, 3, Len(bytes)))
                  ELSE Decode(Tail(bytes))
             ELSE IF b \in Utf8Continuation \cup Utf8Invalid
                  THEN Decode(Tail(bytes))
                  ELSE <<b>> \o Decode(Tail(bytes))

\* channel.recv_ready() is true: data = channel.recv(1024).decode('utf-8',
\* errors='ignore'); the for loop over an empty string has no turn.
Recv ==
    /\ pc = "poll"
    /\ inbuf # <<>>
    /\ LET n == IF Len(inbuf) < RecvSize THEN Len(inbuf) ELSE RecvSize
           text == Decode(SubSeq(inbuf, 1, n))
       IN  /\ data' = text
           /\ inbuf' = SubSeq(inbuf, n + 1, Len(inbuf))
           /\ pc' = IF text = <<>> THEN "check" ELSE "chars"
    /\ UNCHANGED <<authenticated, username, password, shellEvent, chanOpen, chanActive, buffer,
                   commands, cwd, out, emitted, logfile, nsent, stream, limVars, wrkVars, lineVars, detVars, lsnVars, fsVars>>

\* channel.send(msgs[1]), channel.send(msgs[2]), ...: the first one raises
\* when the channel is not active, and buffer is then what the statements
\* before it made of it (bufOnRaise); otherwise `then` says how the
\* iteration goes on.
SendAll(msgs, bufOnRaise, then) ==
    IF msgs # <<>> /\ ~chanActive
    THEN /\ HandlerRaises
         /\ buffer' = bufOnRaise
         /\ UNCHANGED out
    ELSE /\ out' = out \o msgs
         /\ then

\* The for loop goes on to the next character of the chunk.
NextChar ==
    /\ data' = Tail(data)
    /\ pc' = IF Tail(data) = <<>> THEN "check" ELSE "chars"
    /\ UNCHANGED <<chanActive, emitted, logfile>>

\* The exit branch without its `break`: the for loop goes on with the rest of
\* the chunk after channel.close().
ExitBranchNoBreak(cmds) ==
    SendAll(<<Logout>>, buffer,
            /\ data' = Tail(data)
            /\ pc' = IF Tail(data) = <<>> THEN "check" ELSE "chars"
            /\ chanActive' = FALSE
            /\ UNCHANGED <<buffer, emitted, logfile>>)

\* `if result is None`: logout message, channel.close(), break; the channel is
\* then not active, so the while loop is left as well.
ExitBranch(cmds) ==
    SendAll(<<Logout>>, buffer, HandlerLeavesLoop(cmds) /\ UNCHANGED buffer)

\* commands.append(buffer) without the strip()
RecordedRaw(cmds, buf) == Append(cmds, buf)

\* commands.append(buffer.strip())
Recorded(cmds, buf) == Append(cmds, Strip(buf))

\* char == '\r' or char == '\n'
ProcessLineEnd ==
    IF Strip(buffer) # <<>>
    THEN LET result == ExecuteCommand(username, cwd, buffer)
             cmds == Recorded(commands, buffer)
         IN  /\ commands' = cmds
             /\ cwd' = result.dir
             /\ IF result.exit
                THEN ExitBranch(cmds)
                ELSE SendAll((IF result.text # <<>>
                              THEN << <<"\r\n">> \o result.text \o <<"\r\n">> >>
                              ELSE <<>>)
                             \o <<Prompt(username, result.dir)>>,
                             buffer,
                             NextChar /\ buffer' = <<>>)
    ELSE /\ SendAll(<<Prompt(username, cwd)>>, buffer, NextChar /\ UNCHANGED buffer)
         /\ UNCHANGED <<commands, cwd>>

\* The backspace branch sending its echo and leaving buffer as it is.
ProcessBackspaceEchoOnly ==
    /\ IF buffer # <<>>
       THEN SendAll(<<BackspaceEcho>>, buffer, NextChar /\ UNCHANGED buffer)
       ELSE SendAll(<<>>, buffer, NextChar /\ UNCHANGED buffer)
    /\ UNCHANGED <<commands, cwd>>

\* The backspace branch without its `if buffer:`, echoing on an empty buffer too.
ProcessBackspaceUnguarded ==
    /\ SendAll(<<BackspaceEcho>>, Front(buffer), NextChar /\ buffer' = Front(buffer))
    /\ UNCHANGED <<commands, cwd>>

\* char == '\x7f'
ProcessBackspace ==
    /\ IF buffer # <<>>
       THEN SendAll(<<BackspaceEcho>>, Front(buffer),
                    NextChar /\ buffer' = Front(buffer))
       ELSE SendAll(<<>>, buffer, NextChar /\ UNCHANGED buffer)
    /\ UNCHANGED <<commands, cwd>>

\* The interrupt branch without its `buffer = ""`.
ProcessInterruptKeepingBuffer ==
    /\ SendAll(<<CtrlCEcho, Prompt(username, cwd)>>, buffer,
               NextChar /\ UNCHANGED buffer)
    /\ UNCHANGED <<commands, cwd>>

\* char == '\x03'
ProcessInterrupt ==
    /\ SendAll(<<CtrlCEcho, Prompt(username, cwd)>>, buffer,
               NextChar /\ buffer' = <<>>)
    /\ UNCHANGED <<commands, cwd>>

\* any other character
ProcessOther(char) ==
    /\ SendAll(<< <<char>> >>, Append(buffer, char),
               NextChar /\ buffer' = Append(buffer, char))
    /\ UNCHANGED <<commands, cwd>>

\* One turn of `for char in data`.
ProcessChar ==
    /\ pc = "chars"
    /\ data # <<>>
    /\ LET char == Head(data)
       IN  CASE char = CR \/ char = LF -> ProcessLineEnd
             [] char = DEL -> ProcessBackspace
             [] char = ETX -> ProcessInterrupt
             [] OTHER -> ProcessOther(char)
    /\ UNCHANGED <<authenticated, username, password, shellEvent, chanOpen, inbuf, nsent, stream, limVars, wrkVars, lineVars, detVars, lsnVars, fsVars>>

\* `if not channel.active` is false: the while loop goes round.
CheckActive ==
    /\ pc = "check"
    /\ chanActive
    /\ pc' = "poll"
    /\ UNCHANGED <<authenticated, username, password, shellEvent, chanOpen, chanActive, inbuf,
                   data, buffer, commands, cwd, out, emitted, logfile, nsent, stream,
                   limVars, wrkVars, lineVars, detVars, lsnVars, fsVars>>

\* `if not channel.active: break`, then log_session and the finally clause.
LoopBreak ==
    /\ pc \in {"poll", "check"}
    /\ ~chanActive
    /\ HandlerLeavesLoop(commands)
    /\ UNCHANGED <<authenticated, username, password, shellEvent, chanOpen, inbuf, buffer,
                   commands, cwd, out, nsent, stream, limVars, wrkVars, lineVars, detVars, lsnVars, fsVars>>

(***************************************************************************)
(* RateLimiter. requests is a defaultdict(list): reading a missing ip      *)
(* gives the empty list, assigning creates the key.                        *)
(***************************************************************************)
Ips == {"ipA", "ipB"}

NoRequests == [i \in {} |-> <<>>]

\* self.requests[ip], read
RequestsOf(reqs, ip) == IF ip \in DOMAIN reqs THEN reqs[ip] ELSE <<>>

\* One list shared by every identity.
SetRequestsShared(reqs, ip, lst) ==
    [i \in DOMAIN reqs \cup {ip} |-> lst]

\* self.requests[ip] = lst
SetRequests(reqs, ip, lst) ==
    [i \in DOMAIN reqs \cup {ip} |-> IF i = ip THEN lst ELSE reqs[i]]

\* The clean-up keeping the entry that is exactly window_seconds old.
PruneInclusive(lst, cutoff) ==
    LET Keep(req_time) == req_time >= cutoff
    IN  SelectSeq(lst, Keep)

\* No clean-up at all.
PruneNothing(lst, cutoff) == lst

\* [req_time for req_time in self.requests[ip] if req_time > cutoff]
Prune(lst, cutoff) ==
    LET Keep(req_time) == req_time > cutoff
    IN  SelectSeq(lst, Keep)

\* The limit test off by one.
OverLimitStrict(lst) == Len(lst) > MaxRequests

\* len(self.requests[ip]) >= self.max_requests
OverLimit(lst) == Len(lst) >= MaxRequests

\* One entry of calls.
Call(op, ip, t, before, result) ==
    [op |-> op, ip |-> ip, t |-> t, before |-> before, result |-> result]

\* RateLimiter.is_rate_limited
IsRateLimited(ip) ==
    /\ Len(calls) < MaxCalls
    /\ LET cutoff == now - WindowSeconds
           kept == Prune(RequestsOf(requests, ip), cutoff)
           limited == OverLimit(kept)
       IN  /\ requests' = SetRequests(requests, ip,
                                      IF limited THEN kept ELSE Append(kept, now))
           /\ calls' = Append(calls, Call("attempt", ip, now,
                                          RequestsOf(requests, ip), limited))
    /\ UNCHANGED <<now, sessVars, wrkVars, lineVars, detVars, lsnVars>>

\* get_request_count recording the look as a request of its own
GetRequestCountCounting(reqs, ip, t) ==
    Append(Prune(RequestsOf(reqs, ip), t - WindowSeconds), t)

\* RateLimiter.get_request_count
GetRequestCount(reqs, ip, t) == Prune(RequestsOf(reqs, ip), t - WindowSeconds)

\* get_stats that never reports the limit as reached
StatsNeverLimited(kept) ==
    [request_count |-> Len(kept),
     limit |-> MaxRequests,
     window_seconds |-> WindowSeconds,
     is_rate_limited |-> FALSE]

\* The dictionary get_stats returns, from the list get_request_count left.
Stats(kept) ==
    [request_count |-> Len(kept),
     limit |-> MaxRequests,
     window_seconds |-> WindowSeconds,
     is_rate_limited |-> Len(kept) >= MaxRequests]

\* RateLimiter.get_stats
GetStats(ip) ==
    /\ Len(calls) < MaxCalls
    /\ LET kept == GetRequestCount(requests, ip, now)
           stats == Stats(kept)
       IN  /\ requests' = SetRequests(requests, ip, kept)
           /\ calls' = Append(calls, Call("snapshot", ip, now,
                                          RequestsOf(requests, ip), stats))
    /\ UNCHANGED <<now, sessVars, wrkVars, lineVars, detVars, lsnVars>>

\* Time passes: datetime.now() reads a later time.
Tick ==
    /\ \E t \in (now + 1)..MaxTime : now' = t
    /\ UNCHANGED <<requests, calls, sessVars, wrkVars, lineVars, detVars, lsnVars>>

(***************************************************************************)
(* Concurrent login requests. Each request is served by one handler        *)
(* (admin_login_post), which calls rate_limiter.get_stats and then         *)
(* rate_limiter.is_rate_limited on the one global limiter. Neither method  *)
(* gives up control while it runs (no await, and one event loop), so each  *)
(* call is one step; here the calls of different handlers may interleave   *)
(* at every call boundary.                                                 *)
(***************************************************************************)
Workers == {"w1", "w2"}
NoIp == "none"
NoStats == NoneVal

\* The attempt deciding on what the handler's earlier get_stats reported.
WorkerDecisionFromSnapshot(w, kept) == wstats[w].is_rate_limited

\* The decision of the handler's attempt: is_rate_limited tests the list it
\* has itself just pruned.
WorkerDecision(w, kept) == OverLimit(kept)

\* stats = rate_limiter.get_stats(client_ip)
WorkerGetStats(w, ip) ==
    /\ wpc[w] = "idle"
    /\ posts < MaxPosts
    /\ LET kept == GetRequestCount(requests, ip, now)
       IN  /\ requests' = SetRequests(requests, ip, kept)
           /\ wstats' = [wstats EXCEPT ![w] = Stats(kept)]
    /\ wip' = [wip EXCEPT ![w] = ip]
    /\ raced' = [raced EXCEPT ![w] = FALSE]
    /\ wpc' = [wpc EXCEPT ![w] = "checked"]
    /\ posts' = posts + 1
    /\ UNCHANGED <<wresult, admitted, response, now, calls, sessVars, lineVars, detVars, lsnVars>>

\* if rate_limiter.is_rate_limited(client_ip):
WorkerIsRateLimited(w) ==
    /\ wpc[w] = "checked"
    /\ LET ip == wip[w]
           kept == Prune(RequestsOf(requests, ip), now - WindowSeconds)
           limited == WorkerDecision(w, kept)
       IN  /\ requests' = SetRequests(requests, ip,
                                      IF limited THEN kept ELSE Append(kept, now))
           /\ wresult' = [wresult EXCEPT ![w] = limited]
           /\ admitted' = IF limited THEN admitted
                          ELSE [admitted EXCEPT ![ip] = Append(@, now)]
           /\ raced' = [v \in Workers |->
                           IF v # w /\ wpc[v] = "checked" /\ wip[v] = ip /\ ~limited
                           THEN TRUE ELSE raced[v]]
    /\ wpc' = [wpc EXCEPT ![w] = "done"]
    /\ UNCHANGED <<wip, wstats, posts, response, now, calls, sessVars, lineVars, detVars, lsnVars>>

(***************************************************************************)
(* AttackDetector (http_honeypot.py). A payload is a sequence of            *)
(* characters; the control characters are written "LF", "TAB", "CR", "VT"  *)
(* and "FF", and the backquote "BACKTICK". A rule is a regular expression, *)
(* kept with its source text (which names it in the result; a sequence of  *)
(* pieces of text) and as a term the matcher walks.                        *)
(***************************************************************************)
LowerLetters == <<"a", "b", "c", "d", "e", "f", "g", "h", "i", "j", "k", "l", "m", "n", "o", "p", "q", "r", "s", "t", "u", "v", "w", "x", "y", "z">>
UpperLetters == <<"A", "B", "C", "D", "E", "F", "G", "H", "I", "J", "K", "L", "M", "N", "O", "P", "Q", "R", "S", "T", "U", "V", "W", "X", "Y", "Z">>
Digits == {"0", "1", "2", "3", "4", "5", "6", "7", "8", "9"}
Letters == {LowerLetters[n] : n \in 1..Len(LowerLetters)} \cup
           {UpperLetters[n] : n \in 1..Len(UpperLetters)}
\* \w: what \b tells apart from everything else
WordChars == Letters \cup Digits \cup {"_"}
\* \s
WhiteSpace == {" ", "TAB", "LF", "CR", "VT", "FF"}

\* str.lower() on one character, also the case folding of re.IGNORECASE
LowerOf == [c \in {UpperLetters[n] : n \in 1..Len(UpperLetters)} |->
               LowerLetters[CHOOSE n \in 1..Len(UpperLetters) : UpperLetters[n] = c]]
Lower(c) == IF c \in DOMAIN LowerOf THEN LowerOf[c] ELSE c
\* text.lower()
TextLower(text) == [n \in 1..Len(text) |-> Lower(text[n])]

\* The constructs the rule tables use.
Lit(s)    == [k |-> "lit", s |-> s]           \* literal characters
AnyChar   == [k |-> "any"]                   \* .
OneOf(S)  == [k |-> "in", set |-> S]          \* [...] and \s
NoneOf(S) == [k |-> "notin", set |-> S]       \* [^...]
Wb        == [k |-> "wb"]                    \* \b
Cat(rs)   == [k |-> "cat", items |-> rs]      \* one after another
Alt(rs)   == [k |-> "alt", items |-> rs]      \* a|b
Star(r)   == [k |-> "star", item |-> r]       \* r* (and r*?)
Plus(r)   == [k |-> "plus", item |-> r]       \* r+
Opt(r)    == [k |-> "opt", item |-> r]        \* r?
Rule(pattern, term) == [pattern |-> pattern, re |-> term]

\* SQL_PATTERNS (http_honeypot.py:55-73)
SqlPatterns == <<
    Rule(<<"(\\bunion\\b.*\\bselect\\b)">>,
         Cat(<<Wb, Lit(<<"u", "n", "i", "o", "n">>), Wb, Star(AnyChar), Wb, Lit(<<"s", "e", "l", "e", "c", "t">>), Wb>>)),
    Rule(<<"(\\bor\\b\\s+['\\\"]?1['\\\"]?\\s*=\\s*['\\\"]?1)">>,
         Cat(<<Wb, Lit(<<"o", "r">>), Wb, Plus(OneOf(WhiteSpace)), Opt(OneOf({"'", "\""})), Lit(<<"1">>), Opt(OneOf({"'", "\""})), Star(OneOf(WhiteSpace)), Lit(<<"=">>), Star(OneOf(WhiteSpace)), Opt(OneOf({"'", "\""})), Lit(<<"1">>)>>)),
    Rule(<<"(\\bor\\b\\s+['\\\"]?true['\\\"]?)">>,
         Cat(<<Wb, Lit(<<"o", "r">>), Wb, Plus(OneOf(WhiteSpace)), Opt(OneOf({"'", "\""})), Lit(<<"t", "r", "u", "e">>), Opt(OneOf({"'", "\""}))>>)),
    Rule(<<"(;.*drop\\s+table)">>,
         Cat(<<Lit(<<";">>), Star(AnyChar), Lit(<<"d", "r", "o", "p">>), Plus(OneOf(WhiteSpace)), Lit(<<"t", "a", "b", "l", "e">>)>>)),
    Rule(<<"(;.*delete\\s+from)">>,
         Cat(<<Lit(<<";">>), Star(AnyChar), Lit(<<"d", "e", "l", "e", "t", "e">>), Plus(OneOf(WhiteSpace)), Lit(<<"f", "r", "o", "m">>)>>)),
    Rule(<<"(;.*insert\\s+into)">>,
         Cat(<<Lit(<<";">>), Star(AnyChar), Lit(<<"i", "n", "s", "e", "r", "t">>), Plus(OneOf(WhiteSpace)), Lit(<<"i", "n", "t", "o">>)>>)),
    Rule(<<"(;.*update\\s+.*set)">>,
         Cat(<<Lit(<<";">>), Star(AnyChar), Lit(<<"u", "p", "d", "a", "t", "e">>), Plus(OneOf(WhiteSpace)), Star(AnyChar), Lit(<<"s", "e", "t">>)>>)),
    Rule(<<"('|\\\")(\\s*)(or|and)(\\s*)('|\\\"|1|true)">>,
         Cat(<<OneOf({"'", "\""}), Star(OneOf(WhiteSpace)), Alt(<<Lit(<<"o", "r">>), Lit(<<"a", "n", "d">>)>>), Star(OneOf(WhiteSpace)), Alt(<<Lit(<<"'">>), Lit(<<"\"">>), Lit(<<"1">>), Lit(<<"t", "r", "u", "e">>)>>)>>)),
    Rule(<<"(exec\\s*\\()">>,
         Cat(<<Lit(<<"e", "x", "e", "c">>), Star(OneOf(WhiteSpace)), Lit(<<"(">>)>>)),
    Rule(<<"(execute\\s+immediate)">>,
         Cat(<<Lit(<<"e", "x", "e", "c", "u", "t", "e">>), Plus(OneOf(WhiteSpace)), Lit(<<"i", "m", "m", "e", "d", "i", "a", "t", "e">>)>>)),
    Rule(<<"(benchmark\\s*\\()">>,
         Cat(<<Lit(<<"b", "e", "n", "c", "h", "m", "a", "r", "k">>), Star(OneOf(WhiteSpace)), Lit(<<"(">>)>>)),
    Rule(<<"(sleep\\s*\\()">>,
         Cat(<<Lit(<<"s", "l", "e", "e", "p">>), Star(OneOf(WhiteSpace)), Lit(<<"(">>)>>)),
    Rule(<<"(waitfor\\s+delay)">>,
         Cat(<<Lit(<<"w", "a", "i", "t", "f", "o", "r">>), Plus(OneOf(WhiteSpace)), Lit(<<"d", "e", "l", "a", "y">>)>>)),
    Rule(<<"(--|\\#|\\/\\*)">>,
         Alt(<<Lit(<<"-", "-">>), Lit(<<"#">>), Lit(<<"/", "*">>)>>)),
    Rule(<<"(char\\s*\\()">>,
         Cat(<<Lit(<<"c", "h", "a", "r">>), Star(OneOf(WhiteSpace)), Lit(<<"(">>)>>)),
    Rule(<<"(concat\\s*\\()">>,
         Cat(<<Lit(<<"c", "o", "n", "c", "a", "t">>), Star(OneOf(WhiteSpace)), Lit(<<"(">>)>>)),
    Rule(<<"(0x[0-9a-f]+)">>,
         Cat(<<Lit(<<"0", "x">>), Plus(OneOf({"0", "1", "2", "3", "4", "5", "6", "7", "8", "9", "a", "b", "c", "d", "e", "f"}))>>))
>>

\* XSS_PATTERNS (http_honeypot.py:76-95)
XssPatterns == <<
    Rule(<<"(<script[^>]*>.*?</script>)">>,
         Cat(<<Lit(<<"<", "s", "c", "r", "i", "p", "t">>), Star(NoneOf({">"})), Lit(<<">">>), Star(AnyChar), Lit(<<"<", "/", "s", "c", "r", "i", "p", "t", ">">>)>>)),
    Rule(<<"(<script[^>]*>)">>,
         Cat(<<Lit(<<"<", "s", "c", "r", "i", "p", "t">>), Star(NoneOf({">"})), Lit(<<">">>)>>)),
    Rule(<<"(javascript:)">>,
         Lit(<<"j", "a", "v", "a", "s", "c", "r", "i", "p", "t", ":">>)),
    Rule(<<"(onerror\\s*=)">>,
         Cat(<<Lit(<<"o", "n", "e", "r", "r", "o", "r">>), Star(OneOf(WhiteSpace)), Lit(<<"=">>)>>)),
    Rule(<<"(onload\\s*=)">>,
         Cat(<<Lit(<<"o", "n", "l", "o", "a", "d">>), Star(OneOf(WhiteSpace)), Lit(<<"=">>)>>)),
    Rule(<<"(onclick\\s*=)">>,
         Cat(<<Lit(<<"o", "n", "c", "l", "i", "c", "k">>), Star(OneOf(WhiteSpace)), Lit(<<"=">>)>>)),
    Rule(<<"(onmouseover\\s*=)">>,
         Cat(<<Lit(<<"o", "n", "m", "o", "u", "s", "e", "o", "v", "e", "r">>), Star(OneOf(WhiteSpace)), Lit(<<"=">>)>>)),
    Rule(<<"(<iframe[^>]*>)">>,
         Cat(<<Lit(<<"<", "i", "f", "r", "a", "m", "e">>), Star(NoneOf({">"})), Lit(<<">">>)>>)),
    Rule(<<"(<object[^>]*>)">>,
         Cat(<<Lit(<<"<", "o", "b", "j", "e", "c", "t">>), Star(NoneOf({">"})), Lit(<<">">>)>>)),
    Rule(<<"(<embed[^>]*>)">>,
         Cat(<<Lit(<<"<", "e", "m", "b", "e", "d">>), Star(NoneOf({">"})), Lit(<<">">>)>>)),
    Rule(<<"(<img[^>]*onerror)">>,
         Cat(<<Lit(<<"<", "i", "m", "g">>), Star(NoneOf({">"})), Lit(<<"o", "n", "e", "r", "r", "o", "r">>)>>)),
    Rule(<<"(<svg[^>]*onload)">>,
         Cat(<<Lit(<<"<", "s", "v", "g">>), Star(NoneOf({">"})), Lit(<<"o", "n", "l", "o", "a", "d">>)>>)),
    Rule(<<"(eval\\s*\\()">>,
         Cat(<<Lit(<<"e", "v", "a", "l">>), Star(OneOf(WhiteSpace)), Lit(<<"(">>)>>)),
    Rule(<<"(alert\\s*\\()">>,
         Cat(<<Lit(<<"a", "l", "e", "r", "t">>), Star(OneOf(WhiteSpace)), Lit(<<"(">>)>>)),
    Rule(<<"(prompt\\s*\\()">>,
         Cat(<<Lit(<<"p", "r", "o", "m", "p", "t">>), Star(OneOf(WhiteSpace)), Lit(<<"(">>)>>)),
    Rule(<<"(confirm\\s*\\()">>,
         Cat(<<Lit(<<"c", "o", "n", "f", "i", "r", "m">>), Star(OneOf(WhiteSpace)), Lit(<<"(">>)>>)),
    Rule(<<"(document\\.cookie)">>,
         Lit(<<"d", "o", "c", "u", "m", "e", "n", "t", ".", "c", "o", "o", "k", "i", "e">>)),
    Rule(<<"(document\\.write)">>,
         Lit(<<"d", "o", "c", "u", "m", "e", "n", "t", ".", "w", "r", "i", "t", "e">>))
>>

\* PATH_TRAVERSAL_PATTERNS (http_honeypot.py:98-103)
PathTraversalPatterns == <<
    Rule(<<"(\\.\\.\\/|\\.\\.\\\\)">>,
         Cat(<<Lit(<<".", ".">>), OneOf({"/", "\\"})>>)),
    Rule(<<"(%2e%2e%2f|%2e%2e/|..%2f|%2e%2e%5c)">>,
         Alt(<<Lit(<<"%", "2", "e", "%", "2", "e", "%", "2", "f">>), Lit(<<"%", "2", "e", "%", "2", "e", "/">>), Cat(<<AnyChar, AnyChar, Lit(<<"%", "2", "f">>)>>), Lit(<<"%", "2", "e", "%", "2", "e", "%", "5", "c">>)>>)),
    Rule(<<"(\\/etc\\/passwd)">>,
         Lit(<<"/", "e", "t", "c", "/", "p", "a", "s", "s", "w", "d">>)),
    Rule(<<"(\\/windows\\/system32)">>,
         Lit(<<"/", "w", "i", "n", "d", "o", "w", "s", "/", "s", "y", "s", "t", "e", "m", "3", "2">>))
>>

\* COMMAND_INJECTION_PATTERNS (http_honeypot.py:106-115)
CommandInjectionPatterns == <<
    Rule(<<"(;\\s*ls\\s)">>,
         Cat(<<Lit(<<";">>), Star(OneOf(WhiteSpace)), Lit(<<"l", "s">>), OneOf(WhiteSpace)>>)),
    Rule(<<"(;\\s*cat\\s)">>,
         Cat(<<Lit(<<";">>), Star(OneOf(WhiteSpace)), Lit(<<"c", "a", "t">>), OneOf(WhiteSpace)>>)),
    Rule(<<"(;\\s*wget\\s)">>,
         Cat(<<Lit(<<";">>), Star(OneOf(WhiteSpace)), Lit(<<"w", "g", "e", "t">>), OneOf(WhiteSpace)>>)),
    Rule(<<"(;\\s*curl\\s)">>,
         Cat(<<Lit(<<";">>), Star(OneOf(WhiteSpace)), Lit(<<"c", "u", "r", "l">>), OneOf(WhiteSpace)>>)),
    Rule(<<"(\\|\\s*nc\\s)">>,
         Cat(<<Lit(<<"|">>), Star(OneOf(WhiteSpace)), Lit(<<"n", "c">>), OneOf(WhiteSpace)>>)),
    Rule(<<"(\\&\\&\\s*id)">>,
         Cat(<<Lit(<<"&", "&">>), Star(OneOf(WhiteSpace)), Lit(<<"i", "d">>)>>)),
    Rule(<<"(", "BACKTICK", ".*", "BACKTICK", ")">>,
         Cat(<<Lit(<<"BACKTICK">>), Star(AnyChar), Lit(<<"BACKTICK">>)>>)),
    Rule(<<"(\\$\\(.*\\))">>,
         Cat(<<Lit(<<"$", "(">>), Star(AnyChar), Lit(<<")">>)>>))
>>

\* \b at position i: exactly one of the characters around it is a word character
AtBoundary(text, i) ==
    LET before == i > 1 /\ text[i - 1] \in WordChars
        after  == i <= Len(text) /\ text[i] \in WordChars
    IN  before # after

\* The positions where a match of the term that starts at position i can end
\* (re.IGNORECASE: a character matches in either case).
RECURSIVE Ends(_, _, _)
RECURSIVE CatEnds(_, _, _, _)
RECURSIVE StarEnds(_, _, _)
Ends(re, text, i) ==
    CASE re.k = "lit" ->
             IF /\ i + Len(re.s) - 1 <= Len(text)
                /\ \A n \in 1..Len(re.s) : Lower(text[i + n - 1]) = re.s[n]
             THEN {i + Len(re.s)} ELSE {}
      [] re.k = "any" ->
             IF i <= Len(text) /\ text[i] # "LF" THEN {i + 1} ELSE {}
      [] re.k = "in" ->
             IF i <= Len(text) /\ (text[i] \in re.set \/ Lower(text[i]) \in re.set)
             THEN {i + 1} ELSE {}
      [] re.k = "notin" ->
             IF i <= Len(text) /\ text[i] \notin re.set /\ Lower(text[i]) \notin re.set
             THEN {i + 1} ELSE {}
      [] re.k = "wb"   -> IF AtBoundary(text, i) THEN {i} ELSE {}
      [] re.k = "cat"  -> CatEnds(re.items, 1, text, {i})
      [] re.k = "alt"  -> UNION {Ends(re.items[n], text, i) : n \in 1..Len(re.items)}
      [] re.k = "opt"  -> {i} \cup Ends(re.item, text, i)
      [] re.k = "star" -> StarEnds(re.item, text, {i})
      [] re.k = "plus" -> StarEnds(re.item, text, Ends(re.item, text, i))
CatEnds(items, n, text, from) ==
    IF n > Len(items) \/ from = {} THEN from
    ELSE CatEnds(items, n + 1, text, UNION {Ends(items[n], text, j) : j \in from})
StarEnds(item, text, from) ==
    LET more == from \cup UNION {Ends(item, text, j) : j \in from}
    IN  IF more = from THEN from ELSE StarEnds(item, text, more)

\* A search that succeeds when the rule matches at every position.
SearchEverywhere(rule, text) ==
    \A i \in 1..Len(text) : Ends(rule.re, text, i) # {}

\* re.search(pattern, text, re.IGNORECASE): a match starting anywhere
Search(rule, text) ==
    \E i \in 1..(Len(text) + 1) : Ends(rule.re, text, i) # {}

\* The loop of each detect_* method: the rules that match, in table order, each
\* written f"{category}: {pattern}".
RECURSIVE Detect(_, _, _, _)
Detect(category, patterns, n, text) ==
    IF n > Len(patterns) THEN <<>>
    ELSE (IF Search(patterns[n], text)
          THEN << <<category, ": ">> \o patterns[n].pattern >> ELSE <<>>)
         \o Detect(category, patterns, n + 1, text)

DetectSqlInjection(text) == Detect("SQL_INJECTION", SqlPatterns, 1, TextLower(text))
DetectXss(text) == Detect("XSS", XssPatterns, 1, TextLower(text))
DetectPathTraversal(text) == Detect("PATH_TRAVERSAL", PathTraversalPatterns, 1, text)
DetectCommandInjection(text) ==
    Detect("COMMAND_INJECTION", CommandInjectionPatterns, 1, text)

\* An aggregate that forgets the command-injection detections.
AllDetectionsWithoutCmd(sql, xss, path, cmd) == sql \o xss \o path

\* all_detections = sql_detections + xss_detections + path_detections + cmd_detections
AllDetections(sql, xss, path, cmd) == sql \o xss \o path \o cmd

AnalyzePayload(text) ==
    LET sql  == DetectSqlInjection(text)
        xss  == DetectXss(text)
        path == DetectPathTraversal(text)
        cmd  == DetectCommandInjection(text)
        all  == AllDetections(sql, xss, path, cmd)
    IN  IF all # <<>>
        THEN [is_malicious |-> TRUE,
              attack_types |->
                  (IF sql # <<>> THEN <<"SQL_INJECTION">> ELSE <<>>) \o
                  (IF xss # <<>> THEN <<"XSS">> ELSE <<>>) \o
                  (IF path # <<>> THEN <<"PATH_TRAVERSAL">> ELSE <<>>) \o
                  (IF cmd # <<>> THEN <<"COMMAND_INJECTION">> ELSE <<>>),
              patterns_detected |-> all]
        ELSE [is_malicious |-> FALSE, attack_types |-> <<>>, patterns_detected |-> <<>>]

\* The pieces the form fields of the requests are made of.
Fragments == {
    <<>>,
    <<"a", "d", "m", "i", "n">>,
    <<"'", " ", "O", "R", " ", "'", "1", "'", "=", "'", "1">>,
    <<"1", " ", "U", "N", "I", "O", "N", " ", "S", "E", "L", "E", "C", "T", " ", "2">>,
    <<";", "LF">>,
    <<";", " ", "d", "r", "o", "p", " ", "t", "a", "b", "l", "e", " ", "x">>,
    <<"d", "r", "o", "p", " ", "t", "a", "b", "l", "e", " ", "x">>,
    <<"-", "-">>,
    <<"0", "x", "1", "F">>,
    <<"<", "s", "c", "r", "i", "p", "t", ">">>,
    <<"<", "/", "S", "C", "R", "I", "P", "T", ">">>,
    <<"a", "l", "e", "r", "t", " ", "(", "1", ")">>,
    <<"<", "I", "M", "G", " ", "s", "r", "c", "=", "x", " ", "o", "n", "e", "r", "r", "o", "r", "=", "a", ">">>,
    <<".", ".", "/">>,
    <<"/", "e", "t", "c", "/", "p", "a", "s", "s", "w", "d">>,
    <<"a", "b", "%", "2", "F">>,
    <<";", " ", "l", "s", " ">>,
    <<"-", "-", ";", " ", "l", "s", " ", ".", ".", "/">>,
    <<"BACKTICK", "i", "d", "BACKTICK">>,
    <<"&", "&", " ", "i", "d">>,
    <<"$", "(">>,
    <<")">>,
    <<"x", "TAB", "o", "r", " ", "t", "r", "u", "e">>
}
Payloads == {f \o g : f, g \in Fragments}

\* A request arrives; one of its form fields is the text.
ReceivePayload(text) ==
    /\ payload' = text
    /\ analysis' = <<>>
    /\ UNCHANGED <<sessVars, limVars, wrkVars, lineVars, lsnVars>>

\* username_analysis = AttackDetector.analyze_payload(username)
AnalyzePayloadCall ==
    /\ analysis = <<>>
    /\ analysis' = <<AnalyzePayload(payload)>>
    /\ UNCHANGED <<payload, sessVars, limVars, wrkVars, lineVars, lsnVars>>

\* The form fields a login request carries.
LoginForms == { <<"admin", "admin">>, <<"root", "toor">>, <<"", "">>,
                <<"' or 1=1", "<script>">> }
\* The characters of a form field.
FieldText(field) ==
    CASE field = "admin" -> <<"a", "d", "m", "i", "n">>
      [] field = "root" -> <<"r", "o", "o", "t">>
      [] field = "toor" -> <<"t", "o", "o", "r">>
      [] field = "" -> <<>>
      [] field = "' or 1=1" -> <<"'", " ", "o", "r", " ", "1", "=", "1">>
      [] field = "<script>" -> <<"<", "s", "c", "r", "i", "p", "t", ">">>
NoResponse == [form |-> NoneVal, limited |-> FALSE,
               answer |-> [status |-> 0, detail |-> "None"], events |-> <<>>]
TooManyRequests == [status |-> 429, detail |-> "Too many requests. Please try again later."]
InvalidLogin    == [status |-> 401, detail |-> "Invalid username or password"]

\* A handler that lets the administrator's default credentials in.
LoginResponseAcceptingAdmin(limited, form) ==
    IF limited THEN TooManyRequests
    ELSE IF form = <<"admin", "admin">> THEN [status |-> 200, detail |-> "OK"]
    ELSE InvalidLogin

\* What admin_login_post raises: HTTPException(429) in the branch taken when
\* is_rate_limited returned True, HTTPException(401) at the end of the other;
\* the form fields are analysed and logged, and decide nothing.
LoginResponse(limited, form) ==
    IF limited THEN TooManyRequests ELSE InvalidLogin

\* EventLogger.log_event('rate_limit_exceeded', {...})
RateLimitExceeded(ip, stats) ==
    [event_type |-> "rate_limit_exceeded", data |-> [ip |-> ip, stats |-> stats]]

\* combined_analysis
CombinedAnalysis(form) ==
    LET username_analysis == AnalyzePayload(FieldText(form[1]))
        password_analysis == AnalyzePayload(FieldText(form[2]))
    IN  [username |-> username_analysis,
         password |-> password_analysis,
         overall_malicious |-> username_analysis.is_malicious
                               \/ password_analysis.is_malicious]

\* combined_analysis for each of the forms, worked out once
AnalysisOf == [form \in LoginForms |-> CombinedAnalysis(form)]

\* EventLogger.log_login_attempt(...), which calls log_event('login_attempt', data)
LoginAttempt(ip, form, stats) ==
    [event_type |-> "login_attempt",
     data |-> [ip |-> ip, username |-> form[1], password |-> form[2],
               attack_analysis |-> AnalysisOf[form], rate_limit |-> stats]]

\* A handler that goes on to analyse and log the attempt after it has logged
\* that the limit was exceeded.
LoginEventsAlsoWhenLimited(limited, ip, form, stats) ==
    IF limited THEN <<RateLimitExceeded(ip, stats), LoginAttempt(ip, form, stats)>>
    ELSE <<LoginAttempt(ip, form, stats)>>

\* The events admin_login_post hands to EventLogger.log_event, in order: the
\* limited branch raises right after its event, the other branch logs the
\* attempt with the analysis of both fields.
LoginEvents(limited, ip, form, stats) ==
    IF limited THEN <<RateLimitExceeded(ip, stats)>>
    ELSE <<LoginAttempt(ip, form, stats)>>

\* The handler ends, for a request carrying the given form fields.
WorkerReturn(w, form) ==
    /\ wpc[w] = "done"
    /\ wpc' = [wpc EXCEPT ![w] = "idle"]
    /\ response' = [form |-> form, limited |-> wresult[w],
                     answer |-> LoginResponse(wresult[w], form),
                     events |-> LoginEvents(wresult[w], wip[w], form, wstats[w])]
    /\ UNCHANGED <<wip, wstats, wresult, raced, admitted, posts, limVars, sessVars, lineVars, detVars, lsnVars>>

(***************************************************************************)
(* The listener and its handler threads (ssh_honeypot.py). start_honeypot  *)
(* accepts connections in a loop and starts one thread running             *)
(* handle_client for each; buffer, commands, shell and transport are       *)
(* locals of that call. Here a thread's steps are taken a line at a time.  *)
(* Every session of this specification logs in as the same user, so every  *)
(* FakeShell is built with the same tables: filesystem and files hold them.*)
(***************************************************************************)
ListenerUser == <<"u">>
\* What a client types before a line end.
ListenerInputs == { <<"c", "d", " ", "/", "e", "t", "c">>, <<"l", "s">>, <<"e", "x", "i", "t">> }

\* handle_client entered: nothing but ip is bound yet
NewSession ==
    [st |-> "handshake", buffer |-> <<>>, cwd |-> <<>>, commands |-> <<>>, failed |-> FALSE]

\* buffer as one variable of the module, which every handler thread assigns
WithBufferShared(ss, s, buf) == [t \in DOMAIN ss |-> [ss[t] EXCEPT !.buffer = buf]]

\* buffer is a local of handle_client: each thread has its own
WithBuffer(ss, s, buf) == [ss EXCEPT ![s].buffer = buf]

\* client_socket, client_addr = server_socket.accept(); client_thread.start()
ListenerAccept ==
    /\ listening
    /\ Len(sessions) < MaxConns
    /\ sessions' = Append(sessions, NewSession)
    /\ UNCHANGED <<listening, writers, soloVars, emitted, logfile, fsVars, limVars, wrkVars, lineVars, detVars>>

\* The client authenticates and opens a shell: FakeShell(server.username),
\* buffer = "", commands = [].
SessionShell(s) ==
    /\ sessions[s].st = "handshake"
    /\ sessions' = [WithBuffer(sessions, s, <<>>) EXCEPT
                        ![s].st = "shell", ![s].cwd = HomeOf(ListenerUser),
                        ![s].commands = <<>>]
    /\ filesystem' = NewFilesystem(ListenerUser)
    /\ files' = NewFiles(ListenerUser)
    /\ UNCHANGED <<listening, writers, soloVars, emitted, logfile, limVars, wrkVars, lineVars, detVars>>

\* The characters of a line arrive: buffer += char for each.
SessionInput(s, text) ==
    /\ sessions[s].st = "shell"
    /\ sessions[s].buffer = <<>>
    /\ sessions' = WithBuffer(sessions, s, sessions[s].buffer \o text)
    /\ UNCHANGED <<listening, writers, soloVars, emitted, logfile, fsVars, limVars, wrkVars, lineVars, detVars>>

\* A line end arrives: the line is dispatched and recorded; exit ends the
\* session (log_session, then transport.close() in the finally clause).
SessionLineEnd(s) ==
    /\ sessions[s].st = "shell"
    /\ Len(sessions[s].commands) < MaxSessionLines
    /\ Strip(sessions[s].buffer) # <<>>
    /\ LET me == sessions[s]
           result == ExecuteCommand(ListenerUser, me.cwd, me.buffer)
           cmds == Recorded(me.commands, me.buffer)
       IN  IF result.exit
           THEN /\ sessions' = [sessions EXCEPT ![s].commands = cmds, ![s].st = "closed"]
                /\ WriteLog(SessionEntry(ClientIp, ListenerUser, cmds))
           ELSE /\ sessions' = [WithBuffer(sessions, s, <<>>) EXCEPT
                                    ![s].commands = cmds, ![s].cwd = result.dir]
                /\ UNCHANGED <<emitted, logfile>>
    /\ UNCHANGED <<listening, writers, soloVars, fsVars, limVars, wrkVars, lineVars, detVars>>

\* Something in the handler raises (the handshake fails, a send or a recv
\* fails): `except Exception` logs it, the finally clause closes the
\* transport, and the thread ends.
SessionFails(s) ==
    /\ sessions[s].st \in {"handshake", "shell"}
    /\ sessions' = [sessions EXCEPT ![s].st = "closed", ![s].failed = TRUE]
    /\ UNCHANGED <<listening, writers, soloVars, emitted, logfile, fsVars, limVars, wrkVars, lineVars, detVars>>

(***************************************************************************)
(* SessionLogger._write_log called from several threads. start_honeypot    *)
(* starts one thread per connection, and each session hands two entries to *)
(* _write_log: log_auth when the client authenticates, log_session when    *)
(* the loop is left. _write_log holds no lock: it loads the whole file     *)
(* into the local `logs`, appends, and writes `logs` back. A thread's      *)
(* three statements are three steps here; each open/load and each          *)
(* open/dump is taken as one step.                                         *)
(***************************************************************************)
MaxWriters == 2
LogWriters == 1..MaxWriters
WriterIps == <<"10.0.0.5", "10.0.0.6", "10.0.0.7">>

\* A thread outside _write_log that has made no call yet
NoWrite == [at |-> "idle", logs |-> <<>>, done |-> 0]

\* The entry of a thread's next call: log_auth first, log_session after it
WriterEntry(t, done) ==
    IF done = 0 THEN AuthEntry(WriterIps[t], ListenerUser, "123456")
    ELSE SessionEntry(WriterIps[t], ListenerUser, <<>>)

\* if os.path.exists(LOG_FILE): logs = json.load(f) else: logs = []
WriteLogRead(t) ==
    /\ writers[t].at = "idle"
    /\ writers[t].done < 2
    /\ emitted' = Append(emitted, WriterEntry(t, writers[t].done))
    /\ writers' = [writers EXCEPT ![t].at = "read", ![t].logs = logfile]
    /\ UNCHANGED <<listening, sessions, soloVars, logfile, fsVars, limVars, wrkVars, lineVars, detVars>>

\* logs.append(data)
WriteLogAppend(t) ==
    /\ writers[t].at = "read"
    /\ writers' = [writers EXCEPT ![t].at = "appended",
                                   ![t].logs = Append(@, WriterEntry(t, writers[t].done))]
    /\ UNCHANGED <<listening, sessions, soloVars, emitted, logfile, fsVars, limVars, wrkVars, lineVars, detVars>>

\* with open(LOG_FILE, 'w') as f: json.dump(logs, f, indent=2)
WriteLogWriteBack(t) ==
    /\ writers[t].at = "appended"
    /\ logfile' = writers[t].logs
    /\ writers' = [writers EXCEPT ![t].at = "idle", ![t].logs = <<>>, ![t].done = @ + 1]
    /\ UNCHANGED <<listening, sessions, soloVars, emitted, fsVars, limVars, wrkVars, lineVars, detVars>>

(***************************************************************************)
(* A FakeShell driven line by line: constructed for a username, then       *)
(* execute_command called on one line after another.                       *)
(***************************************************************************)
NoResult == NoneVal

ShellUsers == { <<"r", "o", "o", "t">>, <<"u">> }

ShellLines ==
    { <<"c", "d", " ", "/", "e", "t", "c", "/">>,
      <<"l", "s", " ", "/", "e", "t", "c", "/">>,
      <<"l", "s", " ", "e", "t", "c">>,
      <<"l", "s", " ", "d", "o", "c", "u", "m", "e", "n", "t", "s">>,
      <<"c", "a", "t", " ", "e", "t", "c", "/", "p", "a", "s", "s", "w", "d">>,
      <<"l", "s", " ", "-", "l", "a">>,
      <<"l", "s", " ", "-", "l", "a", " ", "/", "e", "t", "c">>,
      <<"c", "d">>,
      <<"c", "d", " ", "/">>,
      <<"c", "d", " ", "/", "e", "t", "c">>,
      <<"c", "d", " ", "/", "e", "t", "c", "/", "h", "o", "s", "t", "s">>,
      <<"c", "d", " ", "/", "n", "o", "p", "e">>,
      <<"c", "d", " ", "d", "o", "c", "u", "m", "e", "n", "t", "s">>,
      <<"c", "d", " ", "e", "t", "c">>,
      <<"c", "d", " ", "/", "h", "o", "m", "e", "/", "z", "z">>,
      <<"l", "s">>,
      <<"l", "s", " ", "/", "e", "t", "c">>,
      <<"p", "w", "d">>,
      <<"w", "h", "o", "a", "m", "i">>,
      <<"c", "a", "t", " ", "/", "e", "t", "c", "/", "h", "o", "s", "t", "s">>,
      <<"u", "n", "a", "m", "e", " ", "-", "a">>,
      <<"h", "e", "l", "p">>,
      <<"e", "x", "i", "t">>,
      <<"f", "o", "o">>,
      <<"c", "a", "t">>,
      <<"c", "a", "t", " ", "/", "n", "o", "p", "e">>,
      <<"L", "S">>,
      <<"f", "o", "o", " ", "/", "e", "t", "c">> }

handlerVars == <<pc, authenticated, password, shellEvent, chanOpen, chanActive, inbuf, data,
                 buffer, commands, out, emitted, logfile, nsent, stream>>

\* shell = FakeShell(username)
ShellNew(u) ==
    /\ filesystem = NoShell
    /\ username' = u
    /\ cwd' = HomeOf(u)
    /\ filesystem' = NewFilesystem(u)
    /\ files' = NewFiles(u)
    /\ UNCHANGED <<handlerVars, limVars, wrkVars, lineVars, detVars, lsnVars>>

\* shell.execute_command(line)
ShellExecute(line) ==
    /\ filesystem # NoShell
    /\ nlines < MaxLines
    /\ LET result == ExecuteCommand(username, cwd, line)
       IN  /\ lastResult' = result
           /\ cwd' = result.dir
    /\ lastLine' = line
    /\ lastCwd' = cwd
    /\ nlines' = nlines + 1
    /\ UNCHANGED <<username, fsVars, handlerVars, limVars, wrkVars, detVars, lsnVars>>

(***************************************************************************)
(* The specifications.                                                     *)
(***************************************************************************)
Init ==
    /\ pc = "accept"
    /\ authenticated = FALSE
    /\ username = NoneVal
    /\ password = NoneVal
    /\ shellEvent = FALSE
    /\ chanOpen = FALSE
    /\ chanActive = FALSE
    /\ inbuf = <<>>
    /\ data = <<>>
    /\ buffer = <<>>
    /\ commands = <<>>
    /\ cwd = <<>>
    /\ out = <<>>
    /\ emitted = <<>>
    /\ logfile = <<>>
    /\ nsent = 0
    /\ stream = <<>>
    /\ filesystem = NoShell
    /\ files = NoShell
    /\ requests = NoRequests
    /\ now = 0
    /\ calls = <<>>
    /\ wpc = [w \in Workers |-> "idle"]
    /\ wip = [w \in Workers |-> NoIp]
    /\ wstats = [w \in Workers |-> NoStats]
    /\ wresult = [w \in Workers |-> FALSE]
    /\ raced = [w \in Workers |-> FALSE]
    /\ admitted = [ip \in Ips |-> <<>>]
    /\ posts = 0
    /\ response = NoResponse
    /\ payload = <<>>
    /\ analysis = <<>>
    /\ listening = TRUE
    /\ sessions = <<>>
    /\ writers = [t \in LogWriters |-> NoWrite]
    /\ lastLine = <<>>
    /\ lastResult = NoResult
    /\ lastCwd = <<>>
    /\ nlines = 0

Next ==
    \/ \E cred \in Credentials : CheckAuthPassword(cred[1], cred[2])
    \/ \E kind \in ChannelKinds : CheckChannelRequest(kind)
    \/ CheckChannelShellRequest
    \/ \E seg \in Segments : ClientSend(seg)
    \/ ClientDisconnect
    \/ AcceptTimeout
    \/ AcceptChannel
    \/ Recv
    \/ ProcessChar
    \/ CheckActive
    \/ LoopBreak

Spec == Init /\ [][Next]_vars

\* The steps of the handler thread. The thread is scheduled again and again
\* (its loop polls without blocking), so a step it can take is taken.
HandlerNext ==
    \/ AcceptTimeout
    \/ AcceptChannel
    \/ Recv
    \/ ProcessChar
    \/ CheckActive
    \/ LoopBreak

SpecFair == Spec /\ WF_vars(HandlerNext)

NextLimiter ==
    \/ \E ip \in Ips : IsRateLimited(ip)
    \/ \E ip \in Ips : GetStats(ip)
    \/ Tick

SpecLimiter == Init /\ [][NextLimiter]_vars

NextKeys ==
    \/ \E cred \in KeyCredentials : CheckAuthPassword(cred[1], cred[2])
    \/ CheckChannelRequest("session")
    \/ CheckChannelShellRequest
    \/ \E seg \in KeySegments : ClientSend(seg)
    \/ ClientDisconnect
    \/ AcceptChannel
    \/ Recv
    \/ ProcessChar
    \/ CheckActive
    \/ LoopBreak

SpecKeys == Init /\ [][NextKeys]_vars

\* One client whose bytes reach the handler in pieces of any size.
NextBytes ==
    \/ \E cred \in KeyCredentials : CheckAuthPassword(cred[1], cred[2])
    \/ CheckChannelRequest("session")
    \/ CheckChannelShellRequest
    \/ \E seg \in ByteSegments : ClientSend(seg)
    \/ AcceptChannel
    \/ Recv
    \/ ProcessChar
    \/ CheckActive

SpecBytes == Init /\ [][NextBytes]_vars

NextWorkers ==
    \/ \E w \in Workers : \E ip \in Ips : WorkerGetStats(w, ip)
    \/ \E w \in Workers : WorkerIsRateLimited(w)
    \/ \E w \in Workers : WorkerReturn(w, <<"admin", "admin">>)
    \/ Tick

SpecWorkers == Init /\ [][NextWorkers]_vars

\* Login requests served one after another, with every form in LoginForms.
NextLogin ==
    \/ \E ip \in Ips : WorkerGetStats("w1", ip)
    \/ WorkerIsRateLimited("w1")
    \/ \E form \in LoginForms : WorkerReturn("w1", form)
    \/ Tick

SpecLogin == Init /\ [][NextLogin]_vars

\* Form fields classified one after another.
NextDetector ==
    \/ \E text \in Payloads : ReceivePayload(text)
    \/ AnalyzePayloadCall

SpecDetector == Init /\ [][NextDetector]_vars

\* The listener with its handler threads, running concurrently.
NextListener ==
    \/ ListenerAccept
    \/ \E s \in 1..Len(sessions) : SessionShell(s)
    \/ \E s \in 1..Len(sessions) : \E text \in ListenerInputs : SessionInput(s, text)
    \/ \E s \in 1..Len(sessions) : SessionLineEnd(s)
    \/ \E s \in 1..Len(sessions) : SessionFails(s)

SpecListener == Init /\ [][NextListener]_vars

NextShell ==
    \/ \E u \in ShellUsers : ShellNew(u)
    \/ \E line \in ShellLines : ShellExecute(line)

SpecShell == Init /\ [][NextShell]_vars

NextWriters ==
    \/ \E t \in LogWriters : WriteLogRead(t)
    \/ \E t \in LogWriters : WriteLogAppend(t)
    \/ \E t \in LogWriters : WriteLogWriteBack(t)

SpecWriters == Init /\ [][NextWriters]_vars

(***************************************************************************)
(* The session's state, as the specification names it.                     *)
(***************************************************************************)
SessionState ==
    CASE pc = "done" -> "CLOSED"
      [] pc \in {"poll", "chars", "check"} -> "SHELL_ACTIVE"
      [] pc = "accept" /\ authenticated -> "AUTHENTICATED"
      [] OTHER -> "INIT"

StateRank(st) ==
    CASE st = "INIT" -> 0
      [] st = "AUTHENTICATED" -> 1
      [] st = "SHELL_ACTIVE" -> 2
      [] st = "CLOSED" -> 3

IsSession(e) == e.type = "session"
IsAuth(e) == e.type = "authentication"

\* The session_summary events and the auth_attempt events emitted so far.
Summaries == SelectSeq(emitted, IsSession)
AuthEvents == SelectSeq(emitted, IsAuth)

CmdExit == <<"e", "x", "i", "t">>
CmdLsLine == <<"l", "s">>

\* The handler has entered the interactive loop (the banner was written).
EnteredShell == out # <<>>

\* The handler thread takes a step.
HandlerStep == <<pc, data, buffer, commands, cwd, out>>' # <<pc, data, buffer, commands, cwd, out>>

(***************************************************************************)
(* C1: at most one session_summary is ever emitted, and the one emitted    *)
(* carries the session's whole command history, in submission order.       *)
(***************************************************************************)
C1_AtMostOneSummary ==
    /\ Len(Summaries) <= 1
    /\ Len(Summaries) = 1 => Summaries[1].commands = commands

C1_Witness ==
    /\ Len(Summaries) = 1
    /\ commands = <<CmdLsLine, CmdExit>>

(***************************************************************************)
(* C2: a session that was in SHELL_ACTIVE and is CLOSED, whatever closed   *)
(* it (a failing channel.send included), has emitted a session_summary     *)
(* with the commands submitted so far. The code violates this: an          *)
(* exception of channel.send skips log_session.                            *)
(***************************************************************************)
C2_SummaryAfterTransportFailure ==
    (pc = "done" /\ EnteredShell) =>
        /\ Len(Summaries) = 1
        /\ Summaries[1].commands = commands

(***************************************************************************)
(* C3: once a line whose trimmed content is `exit` has been dispatched,    *)
(* the session is CLOSED and exactly one session_summary has been emitted, *)
(* carrying the whole history with `exit` as its last entry. The code      *)
(* violates this when the channel is already dead as the line is           *)
(* processed: the logout message's channel.send raises and log_session is  *)
(* skipped (the defect of C2).                                             *)
(***************************************************************************)
ExitDispatched == commands # <<>> /\ Last(commands) = CmdExit

C3_ExitAlwaysSummarised ==
    ExitDispatched =>
        /\ SessionState = "CLOSED"
        /\ Len(Summaries) = 1
        /\ Summaries[1].commands = commands

\* C3 on an active channel: the step that processes the line end writes the
\* logout message, closes the channel, moves the session to CLOSED, appends
\* `exit` to the history and emits the one session_summary with that history.
ExitOnActiveChannel ==
    [][ ( /\ pc = "chars" /\ data # <<>>
          /\ Head(data) \in {CR, LF}
          /\ Strip(buffer) = CmdExit
          /\ chanActive
          /\ HandlerStep )
        => ( /\ out' = Append(out, Logout)
             /\ chanActive' = FALSE
             /\ SessionState' = "CLOSED"
             /\ commands' = Append(commands, CmdExit)
             /\ Len(Summaries') = 1
             /\ Summaries'[1] = [type |-> "session", ip |-> ClientIp,
                                 username |-> username,
                                 commands |-> Append(commands, CmdExit)] ) ]_vars

C3_Witness ==
    /\ SessionState = "CLOSED"
    /\ EnteredShell /\ Last(out) = Logout
    /\ commands = <<CmdExit>>
    /\ Len(Summaries) = 1

(***************************************************************************)
(* C4: the session's state never moves backward, and once the session is   *)
(* CLOSED or `exit` has been dispatched nothing is read, buffered, echoed, *)
(* dispatched or appended to the history any more.                         *)
(***************************************************************************)
C4_ForwardOnlyAndInertWhenClosed ==
    [][ /\ StateRank(SessionState') >= StateRank(SessionState)
        /\ (SessionState = "CLOSED" \/ ExitDispatched) =>
              /\ SessionState' = "CLOSED"
              /\ UNCHANGED <<inbuf, data, buffer, commands, cwd, out>> ]_vars

C4_Witness ==
    /\ SessionState = "CLOSED"
    /\ ExitDispatched
    /\ inbuf # <<>>

(***************************************************************************)
(* C5: a presented username/password pair is always accepted, and as soon  *)
(* as one has been presented exactly one auth_attempt event exists, with   *)
(* the identity, the username and the password; it is the first event and  *)
(* it precedes the channel.                                                *)
(***************************************************************************)
C5_AuthAlwaysAcceptedAndLogged ==
    /\ username # NoneVal => authenticated
    /\ authenticated =>
          /\ Len(AuthEvents) = 1
          /\ emitted[1] = [type |-> "authentication", ip |-> ClientIp,
                           username |-> username, password |-> password]
    /\ ~authenticated => emitted = <<>>
    /\ chanOpen => authenticated

C5_Witness ==
    /\ SessionState = "CLOSED"
    /\ ~chanOpen
    /\ Len(AuthEvents) = 1

(***************************************************************************)
(* C6: every session_summary in the event trace has an auth_attempt        *)
(* before it.                                                              *)
(***************************************************************************)
C6_AuthBeforeSummary ==
    \A i \in 1..Len(emitted) :
        IsSession(emitted[i]) => \E j \in 1..(i - 1) : IsAuth(emitted[j])

C6_Witness ==
    /\ Len(emitted) = 2
    /\ IsAuth(emitted[1])
    /\ IsSession(emitted[2])

(***************************************************************************)
(* C7: a session receives the prompt and is in SHELL_ACTIVE only after the *)
(* client's shell request. The code violates this: handle_client writes    *)
(* the banner and the prompt as soon as the channel is accepted and never  *)
(* looks at server.event.                                                  *)
(***************************************************************************)
C7_PromptOnlyAfterShellRequest ==
    (EnteredShell \/ SessionState = "SHELL_ACTIVE") => shellEvent

(***************************************************************************)
(* The limiter's calls, as the specification names them: attempt is        *)
(* is_rate_limited, snapshot is get_stats.                                 *)
(***************************************************************************)
\* The attempts made for ip so far, in order.
AttemptsOf(ip) ==
    LET IsAttemptOf(c) == c.op = "attempt" /\ c.ip = ip
    IN  SelectSeq(calls, IsAttemptOf)

\* The entries of lst less than window_duration older than t, in order.
RECURSIVE NewerThanWindow(_, _)
NewerThanWindow(lst, t) ==
    IF lst = <<>> THEN <<>>
    ELSE IF t - Head(lst) < WindowSeconds
         THEN <<Head(lst)>> \o NewerThanWindow(Tail(lst), t)
         ELSE NewerThanWindow(Tail(lst), t)

(***************************************************************************)
(* C8: no identity's window ever holds more than capacity timestamps.      *)
(***************************************************************************)
C8_WindowWithinCapacity ==
    \A ip \in DOMAIN requests : Len(requests[ip]) <= MaxRequests

C8_Witness ==
    /\ calls # <<>>
    /\ Last(calls).op = "attempt"
    /\ Last(calls).result = TRUE
    /\ Len(requests[Last(calls).ip]) = MaxRequests

(***************************************************************************)
(* C9: an attempt at time t returns limited exactly when the entries of    *)
(* the window that survive the pruning at t number at least capacity; a    *)
(* limited attempt leaves exactly the survivors in the window, an          *)
(* attempt that is not limited leaves the survivors followed by t.         *)
(***************************************************************************)
C9_AttemptPrunesChecksAppends ==
    (calls # <<>> /\ Last(calls).op = "attempt") =>
        LET c == Last(calls)
            survivors == NewerThanWindow(c.before, c.t)
        IN  /\ c.result = (Len(survivors) >= MaxRequests)
            /\ c.ip \in DOMAIN requests
            /\ requests[c.ip] = IF c.result THEN survivors
                                ELSE Append(survivors, c.t)

C9_Witness ==
    /\ calls # <<>>
    /\ Last(calls).op = "attempt"
    /\ Last(calls).result = FALSE
    /\ Len(Last(calls).before) = MaxRequests
    /\ Len(requests[Last(calls).ip]) > 1
    /\ Len(requests[Last(calls).ip]) <= MaxRequests

(***************************************************************************)
(* C10: of the attempts of one identity, starting from an empty window,    *)
(* the first capacity ones made within one window are not limited, the     *)
(* next one within that window is limited, and an attempt made more than   *)
(* window_duration after the last accepted one is not limited.             *)
(***************************************************************************)
C10_CapacityThenLimitedThenReset ==
    \A ip \in Ips :
        LET A == AttemptsOf(ip)
            InFirstWindow(k) == \A j \in 1..k : A[j].t - A[1].t < WindowSeconds
            AcceptedBefore(k) == {j \in 1..(k - 1) : A[j].result = FALSE}
            LastAcceptedBefore(k) ==
                CHOOSE j \in AcceptedBefore(k) : \A i \in AcceptedBefore(k) : i <= j
        IN  /\ \A k \in 1..Len(A) :
                  (k <= MaxRequests + 1 /\ InFirstWindow(k)) =>
                      A[k].result = (k = MaxRequests + 1)
            /\ \A k \in 2..Len(A) :
                  ( /\ AcceptedBefore(k) # {}
                    /\ A[k].t - A[LastAcceptedBefore(k)].t > WindowSeconds )
                  => A[k].result = FALSE

C10_Witness ==
    \E ip \in Ips :
        LET A == AttemptsOf(ip)
        IN  /\ Len(A) = MaxRequests + 2
            /\ \A k \in 1..MaxRequests : A[k].result = FALSE
            /\ A[MaxRequests + 1].result = TRUE
            /\ A[MaxRequests + 1].t - A[1].t < WindowSeconds
            /\ A[MaxRequests + 2].result = FALSE
            /\ A[MaxRequests + 2].t - A[MaxRequests].t > WindowSeconds

(***************************************************************************)
(* C11, as stated: a snapshot leaves the limiter's state as it was. The    *)
(* code violates this: get_request_count assigns the pruned list to        *)
(* requests[ip], which drops expired entries and creates the key of an     *)
(* identity not seen before.                                               *)
(***************************************************************************)
IsSnapshotStep == calls' # calls /\ Last(calls').op = "snapshot"

C11_SnapshotLeavesStateUntouched ==
    [][IsSnapshotStep => requests' = requests]_vars

\* The windows the attempts among cs alone produce, the snapshots left out:
\* what requests would be, up to expired entries, had no snapshot been made.
RECURSIVE ReplayAttempts(_, _)
ReplayAttempts(cs, wins) ==
    IF cs = <<>> THEN wins
    ELSE LET c == Head(cs)
             kept == NewerThanWindow(wins[c.ip], c.t)
         IN  IF c.op = "attempt"
             THEN ReplayAttempts(Tail(cs),
                     [wins EXCEPT ![c.ip] =
                         IF Len(kept) >= MaxRequests THEN kept ELSE Append(kept, c.t)])
             ELSE ReplayAttempts(Tail(cs), wins)

\* What the attempts among cs return in that replay, in order.
RECURSIVE ReplayResults(_, _)
ReplayResults(cs, wins) ==
    IF cs = <<>> THEN <<>>
    ELSE LET c == Head(cs)
             kept == NewerThanWindow(wins[c.ip], c.t)
             limited == Len(kept) >= MaxRequests
         IN  IF c.op = "attempt"
             THEN <<limited>> \o
                  ReplayResults(Tail(cs),
                     [wins EXCEPT ![c.ip] = IF limited THEN kept ELSE Append(kept, c.t)])
             ELSE ReplayResults(Tail(cs), wins)

IsAttemptCall(c) == c.op = "attempt"

RECURSIVE MapResults(_)
MapResults(cs) ==
    IF cs = <<>> THEN <<>> ELSE <<Head(cs).result>> \o MapResults(Tail(cs))

EmptyWindows == [ip \in Ips |-> <<>>]

(***************************************************************************)
(* C11, amended: a snapshot never appends; it changes the window of its    *)
(* identity only by dropping entries that have expired (and by creating    *)
(* an empty window for an identity not seen before). Snapshots of one      *)
(* identity at the same time with no attempt of that identity between      *)
(* them return the same count, and the attempts return what they would     *)
(* return and leave the unexpired entries they would leave had no          *)
(* snapshot been made.                                                     *)
(***************************************************************************)
C11_SnapshotOnlyPrunes ==
    /\ (calls # <<>> /\ Last(calls).op = "snapshot") =>
          LET c == Last(calls)
          IN  /\ requests[c.ip] = NewerThanWindow(c.before, c.t)
              /\ c.result.request_count = Len(NewerThanWindow(c.before, c.t))
    /\ \A i, j \in 1..Len(calls) :
          ( /\ i < j
            /\ calls[i].op = "snapshot" /\ calls[j].op = "snapshot"
            /\ calls[i].ip = calls[j].ip /\ calls[i].t = calls[j].t
            /\ \A k \in (i + 1)..(j - 1) :
                  ~(calls[k].op = "attempt" /\ calls[k].ip = calls[i].ip) )
          => calls[i].result.request_count = calls[j].result.request_count
    /\ MapResults(SelectSeq(calls, IsAttemptCall)) = ReplayResults(calls, EmptyWindows)
    /\ \A ip \in Ips :
          NewerThanWindow(RequestsOf(requests, ip), now)
            = NewerThanWindow(ReplayAttempts(calls, EmptyWindows)[ip], now)

\* A snapshot that dropped an expired entry, a second snapshot of the same
\* identity at the same time, then an attempt of that identity.
C11_Witness ==
    \E i, j, k \in 1..Len(calls) :
        /\ i < j /\ j < k
        /\ calls[i].op = "snapshot" /\ calls[j].op = "snapshot"
        /\ calls[k].op = "attempt"
        /\ calls[i].ip = calls[j].ip /\ calls[j].ip = calls[k].ip
        /\ calls[i].t = calls[j].t
        /\ Len(calls[i].before) > calls[i].result.request_count

WindowAfter(c) ==
    LET kept == NewerThanWindow(c.before, c.t)
    IN  IF c.op = "attempt" /\ Len(kept) < MaxRequests THEN Append(kept, c.t) ELSE kept

\* The calls on ip among the first n calls.
EarlierCallsOn(ip, n) == {i \in 1..n : calls[i].ip = ip}

\* The window of ip as the calls on ip alone leave it after the first n calls.
OwnWindow(ip, n) ==
    IF EarlierCallsOn(ip, n) = {} THEN <<>>
    ELSE WindowAfter(calls[CHOOSE i \in EarlierCallsOn(ip, n) :
                              \A k \in EarlierCallsOn(ip, n) : k <= i])

(***************************************************************************)
(* C15: rate-limit state is per identity. The first call on an identity    *)
(* finds an empty window (count 0, not limited), and every call finds the  *)
(* window the previous call on the same identity left, whatever was done   *)
(* for other identities in between; so neither the window of an identity   *)
(* nor what is returned for it depends on calls on another identity.       *)
(***************************************************************************)
C15_StateIsPerIdentity ==
    /\ \A j \in 1..Len(calls) :
          LET c == calls[j]
              kept == NewerThanWindow(OwnWindow(c.ip, j - 1), c.t)
          IN  /\ c.before = OwnWindow(c.ip, j - 1)
              /\ c.op = "attempt" => c.result = (Len(kept) >= MaxRequests)
              /\ c.op = "snapshot" =>
                    /\ c.result.request_count = Len(kept)
                    /\ c.result.is_rate_limited = (Len(kept) >= MaxRequests)
              /\ EarlierCallsOn(c.ip, j - 1) = {} =>
                    /\ c.before = <<>>
                    /\ c.op = "attempt" => c.result = FALSE
                    /\ c.op = "snapshot" =>
                          c.result.request_count = 0 /\ ~c.result.is_rate_limited
    /\ \A ip \in Ips : RequestsOf(requests, ip) = OwnWindow(ip, Len(calls))

\* An identity is seen for the first time after another one has made an
\* attempt, and the other one's next call still finds its own entry.
C15_Witness ==
    \E k, i, j \in 1..Len(calls) :
        /\ k < i /\ i < j
        /\ calls[k].ip = calls[j].ip /\ calls[k].ip # calls[i].ip
        /\ calls[k].op = "attempt" /\ calls[k].result = FALSE
        /\ calls[i].op = "attempt" /\ calls[i].before = <<>> /\ calls[i].result = FALSE
        /\ calls[j].before = WindowAfter(calls[k]) /\ calls[j].before # <<>>

\* How many admitted attempts of ip fall in the window that ends at t.
AdmittedInWindow(ip, t) ==
    Cardinality({i \in 1..Len(admitted[ip]) :
                    admitted[ip][i] > t - WindowSeconds /\ admitted[ip][i] <= t})

(***************************************************************************)
(* C13: an attempt's pruning, capacity check and append are one step, so   *)
(* however the calls of concurrent handlers on one identity interleave,    *)
(* no more than capacity of the attempts that fall in one window are       *)
(* admitted, and the window never holds more than capacity entries.        *)
(***************************************************************************)
C13_CapacityUnderInterleaving ==
    \A ip \in Ips :
        /\ Len(RequestsOf(requests, ip)) <= MaxRequests
        /\ \A t \in 0..now : AdmittedInWindow(ip, t) <= MaxRequests

\* Two handlers are serving the same identity at once; one has been refused
\* with the window full, the other is between its two calls.
C13_Witness ==
    \E w, v \in Workers :
        /\ w # v
        /\ wpc[w] = "done" /\ wresult[w]
        /\ wpc[v] = "checked" /\ wip[v] = wip[w]
        /\ AdmittedInWindow(wip[w], now) = MaxRequests

(***************************************************************************)
(* C14: get_stats followed by is_rate_limited is not one step. A handler   *)
(* whose get_stats reported "not limited" can be refused by its own        *)
(* attempt right after (the witness), and this happens only when another   *)
(* handler's attempt for the same identity was admitted between the two    *)
(* calls.                                                                  *)
(***************************************************************************)
C14_RefusedAfterClearSnapshotOnlyByRace ==
    \A w \in Workers :
        (wpc[w] = "done" /\ ~wstats[w].is_rate_limited /\ wresult[w]) => raced[w]

\* The handler's snapshot said "not limited", its attempt said "limited".
C14_Witness ==
    \E w \in Workers :
        /\ wpc[w] = "done"
        /\ ~wstats[w].is_rate_limited
        /\ wstats[w].request_count < MaxRequests
        /\ wresult[w]
        /\ AdmittedInWindow(wip[w], now) = MaxRequests

\* The for loop of the handler processes the character c.
CharStep(c) == pc = "chars" /\ data # <<>> /\ Head(data) = c /\ data' # data

\* ... a line terminator
LineEndStep == CharStep(CR) \/ CharStep(LF)

\* ... a character that is typed into the buffer
TypedStep == pc = "chars" /\ data # <<>> /\ Head(data) \notin {CR, LF, DEL, ETX} /\ data' # data

\* What is sent for a dispatched line whose command returned res.
Answer(res, dir) ==
    IF res.exit THEN <<Logout>>
    ELSE (IF res.text # <<>> THEN << <<"\r\n">> \o res.text \o <<"\r\n">> >> ELSE <<>>)
         \o <<Prompt(username, dir)>>

(***************************************************************************)
(* C16, as stated: a line terminator processed with a non-empty buffer     *)
(* appends the buffer's trimmed content to the history. The code violates  *)
(* this for a buffer of whitespace only, which is not empty and for which  *)
(* nothing is appended.                                                    *)
(***************************************************************************)
C16_NonEmptyBufferIsRecorded ==
    [][ (LineEndStep /\ buffer # <<>>) => commands' = Append(commands, Strip(buffer)) ]_vars

(***************************************************************************)
(* C16, amended: a line terminator processed with a buffer whose trimmed   *)
(* content is not empty appends exactly that trimmed content to the end    *)
(* of the history and dispatches it; on a live channel the result (if      *)
(* any) and the next prompt are then sent, or the logout message alone     *)
(* when the line is exit. With an empty or whitespace-only buffer the      *)
(* history is unchanged and only the prompt is sent. No other step         *)
(* changes the history, and no step removes, reorders or rewrites an       *)
(* entry.                                                                  *)
(***************************************************************************)
C16_LineEndRecordsAndAnswers ==
    [][ /\ LineEndStep =>
             LET line == Strip(buffer)
                 res == ExecuteCommand(username, cwd, line)
             IN  IF line # <<>>
                 THEN /\ commands' = Append(commands, line)
                      /\ cwd' = res.dir
                      /\ chanActive => out' = out \o Answer(res, res.dir)
                 ELSE /\ commands' = commands
                      /\ cwd' = cwd
                      /\ chanActive => out' = out \o <<Prompt(username, cwd)>>
        /\ ~LineEndStep => commands' = commands
        /\ \/ commands' = commands
           \/ commands' # <<>> /\ Front(commands') = commands
      ]_vars

\* A whitespace-only line was answered with the prompt alone, and the next
\* line was recorded trimmed.
C16_Witness ==
    /\ commands = <<CmdLsLine>>
    /\ \E i \in 1..(Len(out) - 3) :
          /\ out[i] = <<" ">>
          /\ out[i + 1] = Prompt(username, HomeOf(username))
          /\ out[i + 2] = <<"l">>
    /\ out[Len(out)] = Prompt(username, cwd)

\* The echoes of "lsx" and of one backspace, right after the first prompt,
\* followed by the answer to a line terminator.
TypedLsxBackspaceEnter ==
    /\ Len(out) >= 7
    /\ out[3] = <<"l">> /\ out[4] = <<"s">> /\ out[5] = <<"x">>
    /\ out[6] = BackspaceEcho
    /\ Head(out[7]) = "\r\n"

(***************************************************************************)
(* C17: the line dispatched at a line terminator is the buffer after all   *)
(* edits. A typed character is added at the end of the buffer, a           *)
(* backspace removes the last character still in the buffer, and the line  *)
(* terminator records and dispatches what is left: "lsx", one backspace    *)
(* and CR record and dispatch "ls".                                        *)
(***************************************************************************)
C17_DispatchedLineIsEditedBuffer ==
    /\ [][ /\ CharStep(DEL) =>
                buffer' = IF buffer = <<>> THEN <<>> ELSE SubSeq(buffer, 1, Len(buffer) - 1)
           /\ TypedStep => buffer' = buffer \o <<Head(data)>>
           /\ (LineEndStep /\ Strip(buffer) # <<>>) =>
                /\ Last(commands') = Strip(buffer)
                /\ cwd' = ExecuteCommand(username, cwd, buffer).dir
         ]_vars
    /\ [](TypedLsxBackspaceEnter => commands # <<>> /\ commands[1] = CmdLsLine)

C17_Witness ==
    /\ TypedLsxBackspaceEnter
    /\ commands = <<CmdLsLine>>
    /\ out[7] = <<"\r\n">> \o Join(FsChildren(username, HomeOf(username)), <<"  ">>) \o <<"\r\n">>

\* '/': ['bin', 'etc', 'home', 'var', 'usr', 'tmp'], as `ls` prints it
RootListing ==
    <<"\r\n", "bin", "  ", "etc", "  ", "home", "  ", "var", "  ", "usr", "  ", "tmp", "\r\n">>

(***************************************************************************)
(* C18: `ls` in a known directory answers with that directory's child      *)
(* names in the configured order, followed by a fresh prompt; with cwd     *)
(* "/" the answer is bin, etc, home, var, usr, tmp in that order.          *)
(***************************************************************************)
C18_LsListsChildrenInOrder ==
    [][ ( /\ LineEndStep
          /\ chanActive
          /\ Strip(buffer) = CmdLsLine
          /\ cwd \in FsDirs(username) )
        => /\ out' = out \o << <<"\r\n">> \o Join(FsChildren(username, cwd), <<"  ">>) \o <<"\r\n">>,
                               Prompt(username, cwd) >>
           /\ cwd = PathRoot => out'[Len(out) + 1] = RootListing
           /\ cwd' = cwd
      ]_vars

\* "cd /" and then "ls": the listing of the root and the prompt of the root.
C18_Witness ==
    /\ cwd = PathRoot
    /\ commands = << <<"c", "d", " ", "/">>, CmdLsLine >>
    /\ Len(out) >= 2
    /\ out[Len(out) - 1] = RootListing
    /\ out[Len(out)] = Prompt(username, PathRoot)

\* The last line given to execute_command, as command name and arguments.
LastParts == Split(Strip(lastLine))
LastCommand == IF LastParts = <<>> THEN <<>> ELSE LastParts[1]
LastIsCdWithPath == nlines > 0 /\ Len(LastParts) >= 2 /\ LastParts[1] = <<"c", "d">>

\* The target of `cd arg` given in directory dir: arg itself when it starts
\* with "/", otherwise dir and arg joined, doubled slashes made single.
CdTarget(dir, arg) ==
    IF arg[1] = "/" THEN arg ELSE ReplaceDoubleSlash(dir \o <<"/">> \o arg)

CdFailed(arg) == <<"bash: cd: ">> \o arg \o <<": No such file or directory">>

(***************************************************************************)
(* C19, as stated, a node of the virtual filesystem being a directory or   *)
(* a file: cd succeeds exactly when the target is a known node or begins   *)
(* with the home-directory prefix. The code violates this for a target     *)
(* that is a known file outside /home/: it is refused.                     *)
(***************************************************************************)
C19_CdAcceptsKnownNodesAndHome ==
    LastIsCdWithPath =>
        LET target == CdTarget(lastCwd, LastParts[2])
        IN  IF \/ target \in FsDirs(username) \cup FsFiles(username)
               \/ StartsWith(target, HomePrefix)
            THEN cwd = target
            ELSE cwd = lastCwd /\ lastResult.text = CdFailed(LastParts[2])

(***************************************************************************)
(* C19, amended: `cd <path>` sets cwd to the target exactly when the       *)
(* target is a known directory of the virtual filesystem or begins with    *)
(* "/home/"; in every other case it returns the error message and cwd is   *)
(* unchanged. In neither case does it return the None that ends the        *)
(* session.                                                                *)
(***************************************************************************)
C19_CdAcceptsKnownDirectoriesAndHome ==
    LastIsCdWithPath =>
        LET target == CdTarget(lastCwd, LastParts[2])
        IN  /\ ~lastResult.exit
            /\ IF target \in FsDirs(username) \/ StartsWith(target, HomePrefix)
               THEN cwd = target /\ lastResult.text = <<>>
               ELSE cwd = lastCwd /\ lastResult.text = CdFailed(LastParts[2])

\* In /etc, as the third command, a cd to a path that is no directory fails
\* and cwd stays /etc.
C19_Witness ==
    /\ LastIsCdWithPath
    /\ nlines = MaxLines
    /\ lastCwd = PathEtc /\ cwd = PathEtc
    /\ lastResult.text = CdFailed(LastParts[2])
    /\ ~lastResult.exit

EtcListing == <<"passwd", "  ", "shadow", "  ", "hosts", "  ", "ssh">>
EtcHostsContent == <<"127.0.0.1 localhost\n127.0.1.1 ubuntu-server\n">>

(***************************************************************************)
(* C20: no command adds, removes or changes a node of the virtual          *)
(* filesystem: after any sequence of commands the directories, their       *)
(* listings and the file contents are those of construction. Only cd       *)
(* changes cwd: ls, pwd, whoami, cat, uname, help, exit and unknown        *)
(* commands leave it as it was.                                            *)
(***************************************************************************)
C20_CommandsLeaveFilesystemAlone ==
    filesystem # NoShell =>
        /\ filesystem = [p \in FsDirs(username) |-> FsChildren(username, p)]
        /\ files = [p \in FsFiles(username) |-> FsContent(username, p)]
        /\ nlines > 0 =>
              /\ LastCommand # <<"c", "d">> => cwd = lastCwd
              /\ lastLine = <<"l", "s", " ", "/", "e", "t", "c">> => lastResult.text = EtcListing
              /\ lastLine = <<"c", "a", "t", " ", "/", "e", "t", "c", "/", "h", "o", "s", "t", "s">> => lastResult.text = EtcHostsContent

\* cd away from home, then cat, then ls of /etc: the listing is the
\* configured one and cwd is where cd left it.
C20_Witness ==
    /\ nlines = MaxLines
    /\ lastLine = <<"l", "s", " ", "/", "e", "t", "c">>
    /\ lastResult.text = EtcListing
    /\ cwd = PathRoot /\ lastCwd = PathRoot
    /\ filesystem = NewFilesystem(username)

(***************************************************************************)
(* C27: after a line terminator has been processed in SHELL_ACTIVE the     *)
(* input buffer is empty, whatever it held before. The code violates this  *)
(* for a buffer of whitespace only: the branch that re-sends the prompt    *)
(* does not clear the buffer.                                              *)
(***************************************************************************)
C27_BufferEmptyAfterLineEnd ==
    [][ (LineEndStep /\ pc' # "done") => buffer' = <<>> ]_vars

\* The space typed before an empty line is still in the buffer when the
\* handler waits for the next input.
C27_Witness ==
    /\ pc = "poll" /\ inbuf = <<>>
    /\ buffer = <<" ">>
    /\ Len(out) >= 4
    /\ out[3] = <<" ">>
    /\ out[4] = Prompt(username, cwd)

\* The child of directory dir that the relative path arg names.
ChildPath(dir, arg) ==
    IF dir = PathRoot THEN PathRoot \o arg ELSE dir \o <<"/">> \o arg

LastIsRelativePath ==
    nlines > 0 /\ Len(LastParts) = 2 /\ LastParts[2][1] \notin {"/", "-"}

(***************************************************************************)
(* C28: for ls and cat a path that does not start with "/" is resolved     *)
(* relative to cwd, for every cwd: naming an existing child of cwd returns *)
(* that child's listing or content. The code violates this when cwd is     *)
(* "/": it joins cwd and the argument with a slash of its own and looks    *)
(* up "//etc", which is no key of the tables.                              *)
(***************************************************************************)
C28_RelativePathsResolveAgainstCwd ==
    LastIsRelativePath =>
        LET target == ChildPath(lastCwd, LastParts[2])
        IN  /\ (LastCommand = <<"l", "s">> /\ target \in FsDirs(username)) =>
                   lastResult.text = Join(FsChildren(username, target), <<"  ">>)
            /\ (LastCommand = <<"c", "a", "t">> /\ target \in FsFiles(username)) =>
                   lastResult.text = FsContent(username, target)

\* `cd /` and then `ls etc`: the answer is the error for the path "//etc".
C28_Witness ==
    /\ nlines = 2
    /\ lastCwd = PathRoot
    /\ lastLine = <<"l", "s", " ", "e", "t", "c">>
    /\ lastResult.text = <<"ls: cannot access '">> \o <<"/", "/", "e", "t", "c">>
                         \o <<"': No such file or directory">>

\* `ls -la /etc`, and the same line without the flag
LastIsLsFlagPath ==
    /\ nlines > 0 /\ Len(LastParts) = 3
    /\ LastParts[1] = <<"l", "s">> /\ LastParts[2][1] = "-"

(***************************************************************************)
(* C29: for ls a leading argument that begins with "-" is ignored for      *)
(* path resolution: `ls <flag> <path>` lists what `ls <path>` lists, and   *)
(* `ls <flag>` lists cwd. The code violates the first half: when the       *)
(* first argument is a flag no argument is taken as the path, and cwd is   *)
(* listed.                                                                 *)
(***************************************************************************)
C29_LsIgnoresLeadingFlag ==
    /\ LastIsLsFlagPath =>
          lastResult.text =
              ExecuteCommand(username, lastCwd, <<"l", "s", " ">> \o LastParts[3]).text
    /\ ( /\ nlines > 0 /\ Len(LastParts) = 2
         /\ LastParts[1] = <<"l", "s">> /\ LastParts[2][1] = "-" ) =>
          lastResult.text = ExecuteCommand(username, lastCwd, <<"l", "s">>).text

\* `ls -la /etc` given in the home directory lists the home directory.
C29_Witness ==
    /\ LastIsLsFlagPath
    /\ LastParts[3] = PathEtc
    /\ lastCwd = HomeOf(username)
    /\ lastResult.text = Join(FsChildren(username, HomeOf(username)), <<"  ">>)

\* The last line names a path with trailing slashes that is not all slashes.
LastHasTrailingSlash ==
    /\ nlines > 0 /\ Len(LastParts) = 2
    /\ Last(LastParts[2]) = "/" /\ RStripSlash(LastParts[2]) # <<>>

\* What the same command returns for the path without its trailing slashes.
WithoutTrailingSlash ==
    ExecuteCommand(username, lastCwd,
                   LastParts[1] \o <<" ">> \o RStripSlash(LastParts[2]))

(***************************************************************************)
(* C30: every command that resolves a path looks up the normalized path:   *)
(* a path with trailing slashes resolves to the node of the path without   *)
(* them, so `cd /etc/` succeeds when `cd /etc` does and leaves the same    *)
(* cwd, and `ls /etc/` lists what `ls /etc` lists. The code violates this  *)
(* for cd (and cat), which look up the path as written.                    *)
(***************************************************************************)
C30_TrailingSlashesAreStripped ==
    LastHasTrailingSlash =>
        /\ cwd = WithoutTrailingSlash.dir
        /\ (lastResult.text = <<>>) = (WithoutTrailingSlash.text = <<>>)
        /\ LastCommand = <<"l", "s">> => lastResult.text = WithoutTrailingSlash.text

\* `cd /etc/` is refused and cwd stays the home directory.
C30_Witness ==
    /\ nlines = 1
    /\ lastLine = <<"c", "d", " ", "/", "e", "t", "c", "/">>
    /\ cwd = HomeOf(username)
    /\ lastResult.text = CdFailed(<<"/", "e", "t", "c", "/">>)

(***************************************************************************)
(* C23: a failure of the log file while an authentication entry or a       *)
(* session entry is written is swallowed. The step that emits the entry    *)
(* has the same effect whether the file took the entry or not: the         *)
(* authentication is accepted and nothing else moves; the session ends     *)
(* with the same bytes sent. No other step touches the file.               *)
(***************************************************************************)
C23_SinkFailureIsSwallowed ==
    [][ /\ emitted' # emitted =>
              LET e == Last(emitted')
              IN  /\ emitted' = Append(emitted, e)
                  /\ logfile' = logfile \/ logfile' = Append(logfile, e)
                  /\ IsAuth(e) =>
                        /\ authenticated'
                        /\ <<pc, chanOpen, chanActive, inbuf, data, buffer, commands, cwd, out>>'
                             = <<pc, chanOpen, chanActive, inbuf, data, buffer, commands, cwd, out>>
                  /\ IsSession(e) =>
                        /\ pc' = "done"
                        /\ out' = out \/ out' = out \o <<Logout>>
                        /\ e.commands = commands'
        /\ emitted' = emitted => logfile' = logfile
      ]_vars

\* Every write failed, and the session ran as usual: authentication, `ls`
\* answered, `exit` answered with the logout message, session closed.
C23_Witness ==
    /\ pc = "done"
    /\ authenticated
    /\ Len(emitted) = 2 /\ logfile = <<>>
    /\ commands = <<CmdLsLine, CmdExit>>
    /\ Last(out) = Logout

\* The remote party is gone while the session is in SHELL_ACTIVE.
DisconnectedInShell == SessionState = "SHELL_ACTIVE" /\ ~chanActive

(***************************************************************************)
(* C25: when the remote party disconnects while the session is in          *)
(* SHELL_ACTIVE, the session eventually leaves the read loop, reaches      *)
(* CLOSED and emits its session_summary. The code reaches CLOSED, but      *)
(* without the summary when input that was received before the disconnect  *)
(* is still to be processed: answering it raises on the dead channel.      *)
(***************************************************************************)
C25_DisconnectLeadsToSummary ==
    DisconnectedInShell ~> (SessionState = "CLOSED" /\ Len(Summaries) = 1)

\* The part of C25 that holds: the loop is always left and the session
\* closed, and with no input pending the summary is written.
DisconnectLeadsToClosed ==
    /\ DisconnectedInShell ~> (SessionState = "CLOSED")
    /\ (DisconnectedInShell /\ inbuf = <<>> /\ data = <<>>)
          ~> (SessionState = "CLOSED" /\ Len(Summaries) = 1)

\* Closed after a disconnect in the shell, a typed character read but never
\* echoed, and no summary.
C25_Witness ==
    /\ SessionState = "CLOSED"
    /\ EnteredShell
    /\ buffer = <<"x">> /\ Len(out) = 2
    /\ Summaries = <<>>

(***************************************************************************)
(* C26: every POST to /admin/login is rejected, whatever the form fields:  *)
(* the answer is 429 when is_rate_limited reported the client limited and  *)
(* 401 "Invalid username or password" otherwise, and never a success       *)
(* status.                                                                 *)
(***************************************************************************)
C26_LoginAlwaysRejected ==
    response # NoResponse =>
        /\ response.answer.status \notin 200..399
        /\ response.limited => response.answer.status = 429
        /\ ~response.limited =>
               /\ response.answer.status = 401
               /\ response.answer.detail = "Invalid username or password"

\* The default administrator credentials, from a client that is not limited,
\* are answered 401.
C26_Witness ==
    /\ response # NoResponse
    /\ response.form = <<"admin", "admin">>
    /\ ~response.limited
    /\ response.answer.status = 401

(***************************************************************************)
(* Vocabulary of the classifier claims: the rules by category and          *)
(* position, and which of them match the payload being classified.         *)
(***************************************************************************)
Categories == <<"SQL_INJECTION", "XSS", "PATH_TRAVERSAL", "COMMAND_INJECTION">>
RuleTable == <<SqlPatterns, XssPatterns, PathTraversalPatterns, CommandInjectionPatterns>>
AllRules == UNION { {<<c, n>> : n \in 1..Len(RuleTable[c])} : c \in 1..Len(Categories) }
\* the text a category's rules are searched in
SearchedText(c) == IF Categories[c] \in {"SQL_INJECTION", "XSS"} THEN TextLower(payload) ELSE payload
RuleMatched(m) == Search(RuleTable[m[1]][m[2]], SearchedText(m[1]))
MatchedRules == {m \in AllRules : RuleMatched(m)}
RuleId(m) == <<Categories[m[1]], ": ">> \o RuleTable[m[1]][m[2]].pattern
RuleOf(id) == CHOOSE m \in AllRules : RuleId(m) = id
RuleBefore(a, b) == a[1] < b[1] \/ (a[1] = b[1] /\ a[2] < b[2])
Classified == analysis # <<>>
Classification == analysis[1]

(***************************************************************************)
(* C21: the classifier's result is an exact aggregate of the rule matches: *)
(* is_malicious is true iff at least one rule of some category matched;    *)
(* attack_types holds a category iff a rule of that category matched; and  *)
(* patterns_detected lists every matched rule once, and nothing else, in   *)
(* the order SQL_INJECTION, XSS, PATH_TRAVERSAL, COMMAND_INJECTION and in   *)
(* rule-table order within a category.                                     *)
(***************************************************************************)
C21_ResultAggregatesMatches ==
    Classified =>
        LET r == Classification
            listed == r.patterns_detected
        IN  /\ r.is_malicious <=> MatchedRules # {}
            /\ \A c \in 1..Len(Categories) :
                   (\E k \in 1..Len(r.attack_types) : r.attack_types[k] = Categories[c])
                   <=> (\E m \in MatchedRules : m[1] = c)
            /\ \A m \in MatchedRules : \E k \in 1..Len(listed) : listed[k] = RuleId(m)
            /\ \A k \in 1..Len(listed) : \E m \in MatchedRules : listed[k] = RuleId(m)
            /\ \A k, l \in 1..Len(listed) :
                   k < l => RuleBefore(RuleOf(listed[k]), RuleOf(listed[l]))

\* A payload that matches rules of all four categories, two of them of one category.
C21_Witness ==
    /\ Classified
    /\ Classification.attack_types = Categories
    /\ Len(Classification.patterns_detected) > Len(Categories)

(***************************************************************************)
(* C22: classifying the empty string matches no rule of any category: the  *)
(* result is is_malicious = false with no attack type and no detected      *)
(* pattern.                                                                *)
(***************************************************************************)
C22_EmptyStringMatchesNothing ==
    (Classified /\ payload = <<>>) =>
        /\ MatchedRules = {}
        /\ Classification.is_malicious = FALSE
        /\ Classification.attack_types = <<>>
        /\ Classification.patterns_detected = <<>>

\* The empty string has been classified.
C22_Witness ==
    /\ Classified
    /\ payload = <<>>
    /\ ~Classification.is_malicious

(***************************************************************************)
(* C24: sessions are isolated. A step changes the buffer, cwd and command  *)
(* history of at most one session, the one that takes it; a handler that   *)
(* fails ends its own session (the transport is closed) and leaves every   *)
(* other session as it was; and the listener stays in its accept loop, so  *)
(* that it accepts the next connection whatever has failed before.         *)
(***************************************************************************)
SessionLocals(r) == <<r.buffer, r.cwd, r.commands>>
ChangedSessions == {s \in 1..Len(sessions) : sessions'[s] # sessions[s]}
FailingSessions == {s \in 1..Len(sessions) : sessions'[s].failed /\ ~sessions[s].failed}
C24_SessionsAreIsolated ==
    /\ [](listening /\ (Len(sessions) < MaxConns => ENABLED ListenerAccept))
    /\ [][ /\ Len(sessions') >= Len(sessions)
           /\ Cardinality(ChangedSessions) <= 1
           /\ \A s \in FailingSessions :
                 /\ sessions'[s].st = "closed"
                 /\ \A t \in 1..Len(sessions) :
                       t # s => /\ sessions'[t].st = sessions[t].st
                                /\ SessionLocals(sessions'[t]) = SessionLocals(sessions[t])
         ]_vars

\* The first session has failed; the second one, accepted as well, is in its
\* shell with a line in its buffer, a cwd it changed and a history of its own.
C24_Witness ==
    /\ Len(sessions) = 2
    /\ sessions[1].failed /\ sessions[1].st = "closed"
    /\ sessions[1].commands = << <<"l", "s">> >>
    /\ sessions[2].st = "shell"
    /\ sessions[2].commands = << <<"c", "d", " ", "/", "e", "t", "c">> >>
    /\ sessions[2].cwd = <<"/", "e", "t", "c">>
    /\ sessions[2].buffer = <<"l", "s">>
    /\ listening

\* The last command was cat; the path it names, resolved against the cwd it was given in
LastIsCat == nlines > 0 /\ LastCommand = <<"c", "a", "t">>
CatTarget(dir, arg) == IF arg[1] = "/" THEN arg ELSE ChildPath(dir, arg)
CatMissingOperand == <<"cat: missing file operand">>
CatNoSuchFile(arg) == <<"cat: ">> \o arg \o <<": No such file or directory">>

(***************************************************************************)
(* C31: cat with no argument answers "missing file operand"; with a path   *)
(* that resolves to a known file it answers exactly that file's content;   *)
(* with any other path it answers a "no such file" error; in all three     *)
(* cases the shell goes on (no exit) in the same cwd. The code violates    *)
(* this for a relative path given in "/": it looks up "//etc/passwd",      *)
(* which is no key of the file table.                                      *)
(***************************************************************************)
C31_CatAnswers ==
    LastIsCat =>
        /\ ~lastResult.exit
        /\ cwd = lastCwd
        /\ IF Len(LastParts) = 1 THEN lastResult.text = CatMissingOperand
           ELSE LET target == CatTarget(lastCwd, LastParts[2])
                IN  IF target \in FsFiles(username)
                    THEN lastResult.text = FsContent(username, target)
                    ELSE lastResult.text = CatNoSuchFile(LastParts[2])

\* `cd /` and then `cat etc/passwd`: the answer is the error, although
\* /etc/passwd is a file of the shell.
C31_Witness ==
    /\ nlines = 2
    /\ lastCwd = PathRoot
    /\ lastLine = <<"c", "a", "t", " ", "e", "t", "c", "/", "p", "a", "s", "s", "w", "d">>
    /\ lastResult.text = CatNoSuchFile(LastParts[2])
    /\ <<"/", "e", "t", "c", "/", "p", "a", "s", "s", "w", "d">> \in FsFiles(username)

(***************************************************************************)
(* C32: a backspace with a non-empty buffer removes exactly the last       *)
(* buffered character and, on a live channel, sends the three characters   *)
(* back, space, back; with an empty buffer it sends nothing and leaves the *)
(* buffer empty. Either way history and cwd are unchanged.                 *)
(***************************************************************************)
C32_BackspaceEditsBuffer ==
    [][ CharStep(DEL) =>
          /\ commands' = commands
          /\ cwd' = cwd
          /\ IF buffer # <<>>
             THEN /\ Len(buffer') = Len(buffer) - 1
                  /\ buffer' \o <<buffer[Len(buffer)]>> = buffer
                  /\ chanActive => out' = out \o << <<"BS", " ", "BS">> >>
             ELSE /\ buffer' = <<>>
                  /\ out' = out
                  /\ pc' # "done"
      ]_vars

\* "lsx" was typed and one backspace answered: the buffer holds "ls".
C32_Witness ==
    /\ Len(out) = 6
    /\ out[5] = <<"x">>
    /\ out[6] = <<"BS", " ", "BS">>
    /\ buffer = <<"l", "s">>
    /\ commands = <<>>

\* The echoes of "x" and of an interrupt right after the first prompt,
\* followed by the echoes of "ls" and the answer to a line terminator.
TypedXInterruptLsEnter ==
    /\ Len(out) >= 8
    /\ out[3] = <<"x">> /\ out[4] = CtrlCEcho
    /\ out[6] = <<"l">> /\ out[7] = <<"s">>
    /\ Head(out[8]) = "\r\n"

(***************************************************************************)
(* C33: an interrupt leaves history and cwd as they are and, on a live     *)
(* channel, sends "^C" with a newline and then the prompt and empties the  *)
(* buffer whatever it held. The discarded text is never dispatched and     *)
(* never recorded: "x", an interrupt and "ls" with a line terminator       *)
(* record and dispatch "ls" alone.                                         *)
(***************************************************************************)
C33_InterruptDiscardsBuffer ==
    /\ [][ CharStep(ETX) =>
             /\ commands' = commands
             /\ cwd' = cwd
             /\ chanActive => /\ out' = out \o << <<"^C\r\n">>, Prompt(username, cwd) >>
                              /\ buffer' = <<>>
         ]_vars
    /\ [](TypedXInterruptLsEnter => commands # <<>> /\ commands[1] = CmdLsLine)

C33_Witness ==
    /\ TypedXInterruptLsEnter
    /\ commands = <<CmdLsLine>>
    /\ out[5] = Prompt(username, HomeOf(username))
    /\ buffer = <<>>

\* The bytes of a text, as channel.send puts them on the wire.
RECURSIVE Encode(_)
Encode(text) ==
    IF text = <<>> THEN <<>>
    ELSE (IF Head(text) = "U+00E9" THEN <<"C3", "A9">> ELSE <<Head(text)>>)
         \o Encode(Tail(text))

\* The handler reads a chunk; the bytes it takes from the channel.
RecvStep == pc = "poll" /\ Len(inbuf') < Len(inbuf)
ReceivedChunk == SubSeq(inbuf, 1, Len(inbuf) - Len(inbuf'))

(***************************************************************************)
(* C34: every byte other than carriage return, line feed, 0x7F and 0x03,   *)
(* unrecognized control bytes included, is appended to the buffer and      *)
(* echoed back unchanged, and no byte ends the session: every byte of a    *)
(* received chunk reaches the character loop, and the loop appends and     *)
(* echoes each such character. The code violates the first part: a byte    *)
(* that is not valid UTF-8 where it stands is dropped by the decoding and  *)
(* is neither buffered nor echoed.                                         *)
(***************************************************************************)
C34_OtherBytesAreBufferedAndEchoed ==
    [][ /\ RecvStep => Encode(data') = ReceivedChunk
        /\ TypedStep =>
              /\ buffer' = Append(buffer, Head(data))
              /\ chanActive => /\ out' = out \o << <<Head(data)>> >>
                               /\ pc' # "done"
      ]_vars

\* The byte 0xFF was sent and read, and nothing was buffered or echoed; an
\* escape sent after it is in the buffer.
C34_Witness ==
    /\ stream = <<"FF", "ESC">>
    /\ pc = "poll" /\ inbuf = <<>>
    /\ buffer = <<"ESC">>
    /\ Len(out) = 3 /\ out[3] = <<"ESC">>

\* The command names execute_command knows.
SupportedCommands ==
    { <<"l", "s">>, <<"p", "w", "d">>, <<"w", "h", "o", "a", "m", "i">>, <<"c", "a", "t">>,
      <<"u", "n", "a", "m", "e">>, <<"c", "d">>, <<"h", "e", "l", "p">>, <<"e", "x", "i", "t">> }
CommandNotFound(token) == <<"\r\n", "-bash: ">> \o token \o <<": command not found", "\r\n">>

\* A line terminator is processed and the buffer holds a line whose first
\* token is no supported command name.
UnknownCommandStep ==
    /\ LineEndStep
    /\ Strip(buffer) # <<>>
    /\ Split(Strip(buffer))[1] \notin SupportedCommands

(***************************************************************************)
(* C35: a line whose first token is not one of the supported command       *)
(* names, compared exactly and with case, is answered "command not found"  *)
(* with that token verbatim and then the prompt; the session goes on, cwd  *)
(* is unchanged and the line is recorded in the history.                   *)
(***************************************************************************)
C35_UnknownCommandIsAnsweredAndRecorded ==
    [][ UnknownCommandStep =>
          /\ commands' = Append(commands, Strip(buffer))
          /\ cwd' = cwd
          /\ chanActive =>
                /\ out' = out \o << CommandNotFound(Split(Strip(buffer))[1]),
                                    Prompt(username, cwd) >>
                /\ pc' # "done"
      ]_vars

\* "LS" and a line terminator: the name differs from ls by case only, and is
\* not found.
C35_Witness ==
    /\ commands = << <<"L", "S">> >>
    /\ Len(out) = 6
    /\ out[5] = CommandNotFound(<<"L", "S">>)
    /\ out[6] = Prompt(username, HomeOf(username))
    /\ pc # "done"

(***************************************************************************)
(* C36: once the shell exists, cwd starts with "/" and is either a         *)
(* directory of the virtual filesystem or a path beginning with "/home/";  *)
(* before any command it is the home directory of the captured username,   *)
(* and a cd without argument puts it back there.                           *)
(***************************************************************************)
C36_CwdIsAbsoluteAndKnownOrHome ==
    filesystem # NoShell =>
        /\ StartsWith(cwd, <<"/">>)
        /\ cwd \in DOMAIN filesystem \/ StartsWith(cwd, HomePrefix)
        /\ nlines = 0 => cwd = HomeOf(username)
        /\ (nlines > 0 /\ lastLine = <<"c", "d">>) => cwd = HomeOf(username)

\* Two commands that leave the shell in /etc, and from there the bare cd that
\* goes home.
C36_Witness ==
    /\ filesystem # NoShell
    /\ nlines = 3
    /\ lastLine = <<"c", "d">>
    /\ lastCwd = PathEtc
    /\ cwd = HomeOf(username)

\* What the loop holds: the line being typed, the history, the shell's
\* directory, and whether the exit command has closed the channel.
LoopState(buf, cmds, dir, closed) ==
    [buffer |-> buf, commands |-> cmds, cwd |-> dir, closed |-> closed]

\* The branches of `for char in data` on a live channel, as a function of the
\* loop's state.
AfterChar(st, char) ==
    CASE char = CR \/ char = LF ->
            IF Strip(st.buffer) # <<>>
            THEN LET result == ExecuteCommand(username, st.cwd, st.buffer)
                     cmds == Append(st.commands, Strip(st.buffer))
                 IN  IF result.exit
                     THEN LoopState(st.buffer, cmds, result.dir, TRUE)
                     ELSE LoopState(<<>>, cmds, result.dir, FALSE)
            ELSE st
      [] char = DEL ->
            IF st.buffer # <<>>
            THEN LoopState(Front(st.buffer), st.commands, st.cwd, FALSE)
            ELSE st
      [] char = ETX -> LoopState(<<>>, st.commands, st.cwd, FALSE)
      [] OTHER -> LoopState(Append(st.buffer, char), st.commands, st.cwd, FALSE)

\* The loop's state after the whole text has arrived as one chunk; nothing is
\* processed after the exit command.
RECURSIVE AfterChunk(_, _)
AfterChunk(st, text) ==
    IF text = <<>> \/ st.closed THEN st
    ELSE AfterChunk(AfterChar(st, Head(text)), Tail(text))

\* The session has consumed everything the client sent, or has ended.
SessionSettled ==
    /\ filesystem # NoShell
    /\ \/ pc = "poll" /\ inbuf = <<>>
       \/ pc = "done"

(***************************************************************************)
(* C37: the history, the directory and the state of the session depend on  *)
(* the bytes sent only, not on the chunks they were received in: once      *)
(* everything sent has been consumed they are what receiving the whole     *)
(* stream as one chunk gives.                                              *)
(***************************************************************************)
C37_ChunkingDoesNotMatter ==
    SessionSettled =>
        LET one == AfterChunk(LoopState(<<>>, <<>>, HomeOf(username), FALSE), Decode(stream))
        IN  /\ commands = one.commands
            /\ cwd = one.cwd
            /\ (pc = "done") = one.closed

\* The two bytes of one character were received in two chunks and both were
\* dropped; the line terminator after them found an empty buffer.
C37_Witness ==
    /\ stream = <<"C3", "A9", CR>>
    /\ pc = "poll"
    /\ inbuf = <<>>
    /\ Len(out) = 3 /\ out[3] = Prompt(username, cwd)
    /\ commands = <<>>

\* How many times an entry stands in a list of entries.
Occurrences(entries, e) == Cardinality({i \in 1..Len(entries) : entries[i] = e})

\* No thread is inside _write_log.
NoWriteInProgress == \A t \in LogWriters : writers[t].at = "idle"

(***************************************************************************)
(* C38: entries written by different sessions at the same time are not     *)
(* lost: however the threads' read, append and write-back steps            *)
(* interleave, once no write is in progress the log file holds every entry *)
(* that was handed to _write_log.                                          *)
(***************************************************************************)
C38_ConcurrentEntriesAreKept ==
    NoWriteInProgress =>
        \A i \in 1..Len(emitted) :
            Occurrences(logfile, emitted[i]) = Occurrences(emitted, emitted[i])

\* Two threads each wrote their authentication entry, both having read the
\* empty file: the file holds the second thread's entry only.
C38_Witness ==
    /\ NoWriteInProgress
    /\ \A t \in {1, 2} : writers[t].done = 1
    /\ emitted = <<WriterEntry(1, 0), WriterEntry(2, 0)>>
    /\ logfile = <<WriterEntry(2, 0)>>

\* What analyze_payload gives for the two fields of each form.
FieldAnalyses ==
    [form \in LoginForms |->
        [username |-> AnalyzePayload(FieldText(form[1])),
         password |-> AnalyzePayload(FieldText(form[2]))]]

\* The handler's is_rate_limited call returns.
LimiterDecides(w) == wpc[w] = "checked" /\ wpc'[w] = "done"

(***************************************************************************)
(* C39: a login request logs exactly one event. When the limiter reports   *)
(* the identity as limited it is rate_limit_exceeded, no field is analysed *)
(* and the identity's window gains no timestamp; otherwise it is           *)
(* login_attempt, carrying the analysis of the username and of the         *)
(* password, and the window gains exactly one timestamp, the request's.    *)
(***************************************************************************)
C39_OneEventPerLogin ==
    /\ [](response # NoResponse =>
            /\ Len(response.events) = 1
            /\ LET event == response.events[1]
               IN  IF response.limited
                   THEN /\ event.event_type = "rate_limit_exceeded"
                        /\ "attack_analysis" \notin DOMAIN event.data
                   ELSE /\ event.event_type = "login_attempt"
                        /\ event.data.attack_analysis.username
                               = FieldAnalyses[response.form].username
                        /\ event.data.attack_analysis.password
                               = FieldAnalyses[response.form].password)
    /\ [][ \A w \in Workers :
             LimiterDecides(w) =>
                 LET before == RequestsOf(requests, wip[w])
                     after == RequestsOf(requests', wip[w])
                     kept == SelectSeq(before, LAMBDA t : t > now - WindowSeconds)
                 IN  IF wresult'[w]
                     THEN after = kept
                     ELSE after = Append(kept, now)
         ]_vars

\* A request that was not limited, with an injection in the username and a
\* script tag in the password: the logged attempt names both.
C39_Witness ==
    /\ response # NoResponse
    /\ ~response.limited
    /\ response.form = <<"' or 1=1", "<script>">>
    /\ response.events[1].event_type = "login_attempt"
    /\ response.events[1].data.attack_analysis.username.attack_types = <<"SQL_INJECTION">>
    /\ response.events[1].data.attack_analysis.password.attack_types = <<"XSS">>
    /\ response.events[1].data.attack_analysis.overall_malicious

====
